---- MODULE Spec2Model ----
(***************************************************************************)
(* The SyncJam playback coordinator: the server's room state, its timers   *)
(* (sync ticker, ready-timeout, play/pause lock release, post-navigation   *)
(* prepare delay), the socket handlers that mutate the room, and the       *)
(* clients' outstanding ready-to-play replies.                             *)
(*                                                                         *)
(* Time is in milliseconds.  Date.now() is read on a clock that is         *)
(* re-based whenever time passes: `now` stays put and every stored         *)
(* timestamp and timer deadline moves into the past by the time elapsed.   *)
(* The source only ever subtracts timestamps from each other, so this is   *)
(* the same program.  roomState.currentTime and track durations are        *)
(* seconds in the source; the model keeps them in milliseconds, so the     *)
(* source's "* 1000" and "/ 1000" are the unit change and nothing else.    *)
(* Queue positions are 0-based as in the source: position i of the source  *)
(* is queue[i + 1] here.                                                   *)
(***************************************************************************)
EXTENDS Integers, Sequences, FiniteSets, TLC

---------------------------------------------------------------------------
(* Program constants *)

SYNC_INTERVAL == 100
PLAY_PAUSE_COOLDOWN == 300
READY_TIMEOUT_MS == 10000
LOCK_RELEASE_MS == 100
NAV_PREPARE_DELAY == 500

\* null (readyTimeout, syncInterval, roomState.startTime before the first play)
NULL == -1

\* The client's drift correction (times in ms)
RESYNC_COOLDOWN == 2000
DEGRADED_COOLDOWN == 5000
maxConsecutiveResyncs == 3
DRIFT_THRESHOLD == 300
DRIFT_THRESHOLD_TOLERANT == 500
HARD_SEEK_DRIFT == 1000
IN_SYNC_DRIFT == 100
RATE_ADJUST_MS == 500
RESYNC_RESET_MS == 10000

---------------------------------------------------------------------------
(* Bounds of the model *)

\* what Date.now() reads on the re-based clock
now == 100000
\* time stops once roomState.startTime is this far in the past
MaxElapsed == 11000
\* longest queue a command may build
MaxQueue == 2
\* number of client commands in one behaviour
MaxCmds == 2
\* number of times the clock moves on in one behaviour
MaxAdvances == 3
\* how long nothing may happen when no timer is pending
IdleWait == 10100

Users == {"u1", "u2"}
\* tracks a client may add: id and duration (ms)
Tracks == {[id |-> "A", duration |-> 200], [id |-> "B", duration |-> 300]}
\* positions a client may seek to (ms)
SeekTimes == {0, 100}
\* queues the room may hold when a behaviour starts: none, or the tracks that
\* clients added with add-to-queue before they left
StartQueues == {<<>>,
                <<[id |-> "A", duration |-> 200]>>,
                <<[id |-> "A", duration |-> 200], [id |-> "B", duration |-> 300]>>}

---------------------------------------------------------------------------
VARIABLES
    queue,              \* roomState.queue
    currentTrackIndex,  \* roomState.currentTrackIndex
    isPlaying,          \* roomState.isPlaying
    currentTime,        \* roomState.currentTime (ms)
    startTime,          \* roomState.startTime
    users,              \* roomState.users: socket id -> [ready]
    syncInterval,       \* handle of the ticker interval, or NULL
    intervals,          \* active setInterval timers: [id, due]
    playPauseLock,
    lastPlayPauseTime,
    readyTimeout,       \* handle of the ready timeout, or NULL
    timeouts,           \* pending setTimeout timers: [id, kind, due]
    useRedis,           \* the snapshot store is enabled (RoomStateManager.useRedis)
    pendingSaves,       \* add/remove handlers suspended in await setState(...)
    emitted,            \* what the last step sent, in order
    replies,            \* per client: ready-to-play replies not yet delivered
    cmds,               \* client commands handled so far
    advances,           \* times the clock has moved on so far
    last,               \* the last step: [op, arg]
    lastPrepareAt,      \* time of the most recent prepare-playback broadcast
    sincePause,         \* a pause was accepted and no play accepted since
    navWindow,          \* a navigation was handled while Playing and its
                        \* prepare-playback has not been broadcast yet
    lastSyncTime,       \* currentTime of the latest sync-time of this playback
                        \* epoch, NULL when the epoch has none yet
    beforeAdd,          \* [set, q]: q was the queue before the latest
                        \* add-to-queue, set while the queue is as that add left it
    client,             \* one browser client (SyncJam): its player and the
                        \* state of its drift correction
    manager             \* the RoomStateManager of this process and the value
                        \* the snapshot store holds under 'room:state'

roomVars  == <<queue, currentTrackIndex, isPlaying, currentTime, startTime, users>>
timerVars == <<syncInterval, intervals, playPauseLock, lastPlayPauseTime,
               readyTimeout, timeouts, useRedis, pendingSaves>>
vars == <<queue, currentTrackIndex, isPlaying, currentTime, startTime, users,
          syncInterval, intervals, playPauseLock, lastPlayPauseTime, readyTimeout,
          timeouts, useRedis, pendingSaves, emitted, replies, cmds, advances, last, lastPrepareAt,
          sincePause, navWindow, lastSyncTime, beforeAdd, client, manager>>

---------------------------------------------------------------------------
(* Helpers *)

Min(S) == CHOOSE x \in S : \A y \in S : x <= y

\* a timer handle not in use
NewId(used) == CHOOSE i \in 1..(Cardinality(used) + 1) : i \notin used

TimerIds == {t.id : t \in timeouts} \cup {t.id : t \in intervals}

\* roomState.users.forEach(user => user.ready = false)
ResetReady(us) == [u \in DOMAIN us |-> [us[u] EXCEPT !.ready = FALSE]]

\* Array.from(roomState.users.values()).every(u => u.ready)
AllReady(us) == \A u \in DOMAIN us : us[u].ready

Clear_Nothing(timers, h) == timers

\* clearTimeout(h) / clearInterval(h): a no-op for NULL and for a timer that is gone
Clear(timers, h) == {t \in timers : t.id # h}

HasMsg(msgs, type) == \E i \in 1..Len(msgs) : msgs[i].type = type

MsgsOf(msgs, type) == {msgs[i] : i \in {j \in 1..Len(msgs) : msgs[j].type = type}}

(* Messages *)
QueueUpdate(q, idx, playing, ct) ==
    [type |-> "queue-update", queue |-> q, currentTrackIndex |-> idx,
     isPlaying |-> playing, currentTime |-> ct]
PlayerUpdate(playing, ct) ==
    [type |-> "player-update", isPlaying |-> playing, currentTime |-> ct]
PreparePlayback(idx, st, ts) ==
    [type |-> "prepare-playback", trackIndex |-> idx, startTime |-> st,
     serverTimestamp |-> ts]
SynchronizedPlay(st, ts) ==
    [type |-> "synchronized-play", startTime |-> st, serverTimestamp |-> ts,
     isPlaying |-> TRUE]
SyncTime(ct, playing, idx, ts) ==
    [type |-> "sync-time", currentTime |-> ct, isPlaying |-> playing,
     currentTrackIndex |-> idx, serverTimestamp |-> ts]

(* The clients' side of the ready handshake.  A client answers each
   prepare-playback it receives with one ready-to-play, some time later or
   never.  A reply is "cur" while the playback epoch it answers is the
   current one and "old" once a later play, navigation or end-of-track
   advance has opened a new epoch. *)
Outdated(r) == [u \in Users |-> IF r[u] = {} THEN {} ELSE {"old"}]
Asked(r, us) == [u \in Users |-> IF u \in DOMAIN us THEN r[u] \cup {"cur"} ELSE r[u]]

\* the room as the specification's modes see it
Mode ==
    IF ~isPlaying THEN "Paused"
    ELSE IF syncInterval # NULL THEN "Playing"
    ELSE IF \E t \in timeouts : t.kind = "prepare" THEN "Navigating"
    ELSE "Preparing"

---------------------------------------------------------------------------
(* RoomStateManager.  memoryState is a reference: to the state object the
   constructor built ("initial") or to the server's roomState ("roomState"),
   which the handlers change in place.  store is what the snapshot store
   holds under 'room:state'. *)

\* JSON.stringify({...state, usersObj: Object.fromEntries(state.users)})
\* without state.users: every field of the state, the sessions as an object
Snapshot(q, idx, playing, ct, st, us) ==
    [saved |-> TRUE, queue |-> q, currentTrackIndex |-> idx, isPlaying |-> playing,
     currentTime |-> ct, startTime |-> st, usersObj |-> us]

\* nothing under 'room:state'
NoSnapshot == [saved |-> FALSE]

\* the state the constructor builds: empty queue, nobody connected
InitialState == Snapshot(<<>>, 0, FALSE, 0, NULL, [u \in {} |-> [ready |-> FALSE]])

\* the server's roomState as it is now
LiveState == Snapshot(queue, currentTrackIndex, isPlaying, currentTime, startTime, users)

\* no store operation of the periodic save in flight
NoAutoSave == [pending |-> FALSE, state |-> "initial", ahead |-> 0]

NewManager ==
    [memoryState |-> "initial", store |-> NoSnapshot, auto |-> NoAutoSave,
     hydrated |-> FALSE, restored |-> {}, boots |-> 0]

\* the manager of a process whose queue is q: a queue is built by
\* add-to-queue, which has called setState(roomState); the store was not
\* enabled or did not take the snapshot
ManagerAfter(q) ==
    [NewManager EXCEPT !.memoryState = IF q = <<>> THEN "initial" ELSE "roomState"]

\* Recorded keeping the state only when the store took it
Recorded_OnlyOnSuccess(m, state, ok) == IF ok THEN state ELSE m.memoryState

\* this.memoryState = state, after the try/catch around the store
Recorded(m, state, ok) == state

\* setState(state) up to its await: with the store enabled the snapshot of
\* the state (content) is sent to the store, which takes it (ok) or fails;
\* without the store setState awaits nothing and records the state at once
SetStateCalled(m, state, content, ok, redis) ==
    IF redis
    THEN [m EXCEPT !.store = IF ok THEN content ELSE @]
    ELSE [m EXCEPT !.memoryState = Recorded(m, state, TRUE)]

\* setState(state) after its await
SetStateReturned(m, state, ok) ==
    [m EXCEPT !.memoryState = Recorded(m, state, ok),
              !.auto = [@ EXCEPT !.ahead = IF @ > 0 THEN @ - 1 ELSE 0]]

\* a stored snapshot after d ms have passed
AgedSnapshot(snap, d) ==
    IF snap.saved /\ snap.startTime # NULL
    THEN [snap EXCEPT !.startTime = IF @ - d >= now - MaxElapsed THEN @ - d
                                    ELSE now - MaxElapsed]
    ELSE snap

\* history of the step just taken; step is [op, arg, ...]
ObserveStep(step) ==
  LET op == step.op
      arg == step.arg
  IN
    /\ last' = step
    /\ beforeAdd' = IF op = "add-to-queue" THEN [set |-> TRUE, q |-> queue]
                    ELSE IF queue' # queue THEN [set |-> FALSE, q |-> <<>>]
                    ELSE beforeAdd
    /\ lastPrepareAt' = IF HasMsg(emitted', "prepare-playback") THEN now ELSE lastPrepareAt
    /\ sincePause' = IF op = "pause" /\ arg = "accepted" THEN TRUE
                     ELSE IF op = "play" /\ arg = "accepted" THEN FALSE
                     ELSE sincePause
    /\ lastSyncTime' =
          IF \/ arg = "accepted" /\ op \in {"play", "skip", "previous", "jump-to-track"}
             \/ HasMsg(emitted', "prepare-playback")
             \/ op = "tick" /\ HasMsg(emitted', "queue-update")
          THEN NULL
          ELSE IF HasMsg(emitted', "sync-time")
          THEN (CHOOSE m \in MsgsOf(emitted', "sync-time") : TRUE).currentTime
          ELSE lastSyncTime
    /\ navWindow' = IF /\ op \in {"skip", "previous", "jump-to-track"}
                       /\ arg = "accepted"
                       /\ Mode = "Playing"
                    THEN TRUE
                    ELSE IF HasMsg(emitted', "prepare-playback") THEN FALSE
                    ELSE navWindow
    /\ UNCHANGED client
    /\ IF op \in {"add-to-queue", "remove-from-queue"} /\ arg # "dropped"
       THEN \E ok \in BOOLEAN :
               manager' = SetStateCalled(manager, "roomState", LiveState', ok, useRedis)
       ELSE IF op = "save-done"
       THEN manager' = SetStateReturned(manager, "roomState", TRUE)
       ELSE UNCHANGED manager

Observe(op, arg) == ObserveStep([op |-> op, arg |-> arg])

Command == cmds < MaxCmds /\ cmds' = cmds + 1 /\ UNCHANGED advances

\* The client as its constructor leaves it: no player yet, nothing corrected.
\* lastResyncTime is 0 in the source: long ago.
NewClient ==
    [audioPlayer |-> FALSE,
     audioTime |-> 0,
     playbackRate |-> 100,
     isPlaying |-> FALSE,
     currentTime |-> 0,
     lastResyncTime |-> now - RESYNC_RESET_MS,
     resyncCooldown |-> RESYNC_COOLDOWN,
     isTransitioning |-> FALSE,
     consecutiveResyncs |-> 0,
     isAdjustingPlaybackRate |-> FALSE,
     clientLatency |-> 0,
     timers |-> {},
     correctedAt |-> now - RESYNC_RESET_MS,   \* history: when handleTimeSync
                                              \* last changed the rate or sought
     tracks |-> 0,          \* roomState.queue.length
     trackIndex |-> 0,      \* roomState.currentTrackIndex
     buffered |-> FALSE,    \* readyState >= 3 with 3 s of data ahead
     loaded |-> NULL,       \* audioPlayer.currentTrackId, as a queue index
     loading |-> {},        \* tracks whose audio URL is being fetched
     waits |-> <<>>]        \* the waitForBuffer calls that have not resolved

---------------------------------------------------------------------------
\* The room as the module builds it, nobody connected.  The queue is empty or
\* holds what earlier clients added before leaving, which changes nothing else.
Init ==
    /\ queue \in StartQueues
    /\ currentTrackIndex = 0
    /\ isPlaying = FALSE
    /\ currentTime = 0
    /\ startTime = NULL
    /\ users = [u \in {} |-> [ready |-> FALSE]]
    /\ syncInterval = NULL
    /\ intervals = {}
    /\ playPauseLock = FALSE
    /\ lastPlayPauseTime = now - PLAY_PAUSE_COOLDOWN   \* 0 in the source: long ago
    /\ readyTimeout = NULL
    /\ timeouts = {}
    /\ useRedis = FALSE
    /\ pendingSaves = 0
    /\ emitted = <<>>
    /\ replies = [u \in Users |-> {}]
    /\ cmds = 0
    /\ advances = 0
    /\ last = [op |-> "init", arg |-> ""]
    /\ lastPrepareAt = NULL
    /\ sincePause = FALSE
    /\ navWindow = FALSE
    /\ lastSyncTime = NULL
    /\ beforeAdd = [set |-> FALSE, q |-> <<>>]
    /\ client = NewClient
    /\ manager = ManagerAfter(queue)

---------------------------------------------------------------------------
(* startSynchronizedPlayback *)

\* if (!syncInterval)
TickerAbsent == syncInterval = NULL

\* starts the ticker unless one is referenced, then broadcasts synchronized-play;
\* `used` are the timer handles in use after the caller's own clearTimeout
StartSynchronizedPlayback(used) ==
    /\ IF TickerAbsent
       THEN LET id == NewId(used) IN
            /\ syncInterval' = id
            /\ intervals' = intervals \cup {[id |-> id, due |-> now + SYNC_INTERVAL]}
       ELSE UNCHANGED <<syncInterval, intervals>>
    /\ emitted' = <<SynchronizedPlay(currentTime, now)>>

\* TrackEnded one tick late: currentTime > duration
TrackEnded_Late(elapsed) ==
    /\ currentTrackIndex >= 0
    /\ currentTrackIndex < Len(queue)
    /\ elapsed > queue[currentTrackIndex + 1].duration

\* the track under roomState.currentTrackIndex exists and currentTime >= its duration
TrackEnded(elapsed) ==
    /\ currentTrackIndex >= 0
    /\ currentTrackIndex < Len(queue)
    /\ elapsed >= queue[currentTrackIndex + 1].duration

\* the setInterval callback, run when an interval is due
SyncTick ==
    \E iv \in intervals :
      /\ iv.due <= now
      /\ LET again == (intervals \ {iv}) \cup {[iv EXCEPT !.due = iv.due + SYNC_INTERVAL]}
             elapsed == now - (IF startTime = NULL THEN 0 ELSE startTime)
         IN
         IF ~(isPlaying /\ Len(queue) > 0)
         THEN /\ intervals' = again
              /\ emitted' = <<>>
              /\ UNCHANGED <<roomVars, syncInterval, timeouts, replies>>
         ELSE IF TrackEnded(elapsed) /\ currentTrackIndex < Len(queue) - 1
         THEN \* move to the next track, prepare-playback after the delay
              /\ intervals' = Clear(again, syncInterval)
              /\ syncInterval' = NULL
              /\ currentTrackIndex' = currentTrackIndex + 1
              /\ currentTime' = 0
              /\ startTime' = now
              /\ users' = ResetReady(users)
              /\ timeouts' = timeouts \cup
                    {[id |-> NewId(TimerIds), kind |-> "prepare",
                      due |-> now + NAV_PREPARE_DELAY]}
              /\ emitted' = <<QueueUpdate(queue, currentTrackIndex + 1, isPlaying, 0),
                              SyncTime(0, isPlaying, currentTrackIndex + 1, now)>>
              /\ replies' = Outdated(replies)
              /\ UNCHANGED <<queue, isPlaying>>
         ELSE IF TrackEnded(elapsed)
         THEN \* end of queue
              /\ isPlaying' = FALSE
              /\ currentTime' = 0
              /\ intervals' = Clear(again, syncInterval)
              /\ syncInterval' = NULL
              /\ emitted' = <<PlayerUpdate(FALSE, 0),
                              SyncTime(0, FALSE, currentTrackIndex, now)>>
              /\ UNCHANGED <<queue, currentTrackIndex, startTime, users, timeouts, replies>>
         ELSE /\ currentTime' = elapsed
              /\ intervals' = again
              /\ emitted' = <<SyncTime(elapsed, isPlaying, currentTrackIndex, now)>>
              /\ UNCHANGED <<queue, currentTrackIndex, isPlaying, startTime, users,
                             syncInterval, timeouts, replies>>
      /\ UNCHANGED <<playPauseLock, lastPlayPauseTime, readyTimeout, useRedis, pendingSaves, cmds, advances>>
      /\ Observe("tick", "")

---------------------------------------------------------------------------
(* Connection, disconnection, ready-to-play *)

Connect(u) ==
    /\ u \notin DOMAIN users
    /\ UNCHANGED <<cmds, advances>>
    /\ users' = [v \in DOMAIN users \cup {u} |->
                    IF v = u THEN [ready |-> FALSE] ELSE users[v]]
    /\ emitted' = <<[type |-> "room-state", to |-> u]>>
    /\ UNCHANGED <<queue, currentTrackIndex, isPlaying, currentTime, startTime,
                   timerVars, replies>>
    /\ Observe("connect", "")

\* Deleted forgetting every session
Deleted_All(us, u) == [v \in {} |-> us[v]]

\* roomState.users.delete(socket.id)
Deleted(us, u) == [v \in DOMAIN us \ {u} |-> us[v]]

Disconnect(u) ==
    /\ u \in DOMAIN users
    /\ UNCHANGED <<cmds, advances>>
    /\ users' = Deleted(users, u)
    /\ replies' = [replies EXCEPT ![u] = {}]
    /\ emitted' = <<[type |-> "user-left", to |-> u]>>
    /\ UNCHANGED <<queue, currentTrackIndex, isPlaying, currentTime, startTime,
                   timerVars>>
    /\ ObserveStep([op |-> "disconnect", arg |-> "", user |-> u])

\* ReadyStarts without its isPlaying check
ReadyStarts_AnyMode(us) == AllReady(us)

\* if (allReady && roomState.isPlaying)
ReadyStarts(us) == AllReady(us) /\ isPlaying

\* a client's ready-to-play arrives; tag tells which epoch it answers
ReadyToPlay(u, tag) ==
    /\ u \in DOMAIN users
    /\ tag \in replies[u]
    /\ replies' = [replies EXCEPT ![u] = @ \ {tag}]
    /\ users' = [users EXCEPT ![u].ready = TRUE]
    /\ IF ReadyStarts(users')
       THEN /\ timeouts' = Clear(timeouts, readyTimeout)
            /\ readyTimeout' = NULL
            /\ StartSynchronizedPlayback(
                  {t.id : t \in Clear(timeouts, readyTimeout)} \cup {t.id : t \in intervals})
       ELSE /\ emitted' = <<>>
            /\ UNCHANGED <<timeouts, readyTimeout, syncInterval, intervals>>
    /\ UNCHANGED <<queue, currentTrackIndex, isPlaying, currentTime, startTime,
                   playPauseLock, lastPlayPauseTime, useRedis, pendingSaves, cmds, advances>>
    /\ Observe("ready-to-play", tag)

---------------------------------------------------------------------------
(* play and pause *)

\* PlayOutcome without its isPlaying check
PlayOutcome_NoPlayingCheck ==
    IF playPauseLock THEN "locked"
    ELSE IF now - lastPlayPauseTime < PLAY_PAUSE_COOLDOWN THEN "cooldown"
    ELSE "accepted"

\* the checks at the top of the play handler, in the source's order
PlayOutcome ==
    IF playPauseLock THEN "locked"
    ELSE IF now - lastPlayPauseTime < PLAY_PAUSE_COOLDOWN THEN "cooldown"
    ELSE IF isPlaying THEN "ignored"
    ELSE "accepted"

\* PauseOutcome without its cooldown check
PauseOutcome_NoCooldown ==
    IF playPauseLock THEN "locked"
    ELSE IF ~isPlaying THEN "ignored"
    ELSE "accepted"

\* the checks at the top of the pause handler, in the source's order
PauseOutcome ==
    IF playPauseLock THEN "locked"
    ELSE IF now - lastPlayPauseTime < PLAY_PAUSE_COOLDOWN THEN "cooldown"
    ELSE IF ~isPlaying THEN "ignored"
    ELSE "accepted"

Play(u) ==
    /\ u \in DOMAIN users
    /\ Command
    /\ IF PlayOutcome # "accepted"
       THEN /\ emitted' = <<>>
            /\ UNCHANGED <<roomVars, timerVars, replies>>
       ELSE LET kept == Clear(timeouts, readyTimeout)
                rid == NewId({t.id : t \in kept} \cup {t.id : t \in intervals})
                lid == NewId({t.id : t \in kept} \cup {t.id : t \in intervals} \cup {rid})
            IN
            /\ playPauseLock' = TRUE
            /\ lastPlayPauseTime' = now
            /\ users' = ResetReady(users)
            /\ isPlaying' = TRUE
            /\ startTime' = now - currentTime
            /\ emitted' = <<PreparePlayback(currentTrackIndex, currentTime, now)>>
            /\ readyTimeout' = rid
            /\ timeouts' = kept \cup
                  {[id |-> rid, kind |-> "ready", due |-> now + READY_TIMEOUT_MS],
                   [id |-> lid, kind |-> "unlock", due |-> now + LOCK_RELEASE_MS]}
            /\ replies' = Asked(Outdated(replies), users)
            /\ UNCHANGED <<queue, currentTrackIndex, currentTime, syncInterval, intervals,
                           useRedis, pendingSaves>>
    /\ Observe("play", PlayOutcome)

\* PausedAt without the computation from startTime
PausedAt_Stale == currentTime

\* if (roomState.startTime) roomState.currentTime = (Date.now() - roomState.startTime) / 1000
PausedAt == IF startTime # NULL /\ startTime # 0 THEN now - startTime ELSE currentTime

Pause(u) ==
    /\ u \in DOMAIN users
    /\ Command
    /\ IF PauseOutcome # "accepted"
       THEN /\ emitted' = <<>>
            /\ UNCHANGED <<roomVars, timerVars>>
       ELSE LET kept == Clear(timeouts, readyTimeout)
                ct == PausedAt
            IN
            /\ playPauseLock' = TRUE
            /\ lastPlayPauseTime' = now
            /\ isPlaying' = FALSE
            /\ currentTime' = ct
            /\ readyTimeout' = NULL
            /\ intervals' = Clear(intervals, syncInterval)
            /\ syncInterval' = NULL
            /\ emitted' = <<PlayerUpdate(FALSE, ct)>>
            /\ timeouts' = kept \cup
                  {[id |-> NewId({t.id : t \in kept} \cup {t.id : t \in intervals}),
                    kind |-> "unlock", due |-> now + LOCK_RELEASE_MS]}
            /\ UNCHANGED <<queue, currentTrackIndex, startTime, users, useRedis, pendingSaves>>
    /\ UNCHANGED <<replies>>
    /\ Observe("pause", PauseOutcome)

---------------------------------------------------------------------------
(* skip, previous, jump-to-track, seek *)

\* if (roomState.isPlaying) setTimeout(..., 500) with the navigation never arming it
NavPrepares_Always == TRUE

\* if (roomState.isPlaying) setTimeout(() => io.emit('prepare-playback', ...), 500)
NavPrepares == isPlaying

\* the body shared by the three navigation handlers once the target is in
\* range; step is what the history keeps of it
Navigated(target, step) ==
    /\ intervals' = Clear(intervals, syncInterval)
    /\ syncInterval' = NULL
    /\ currentTrackIndex' = target
    /\ currentTime' = 0
    /\ startTime' = now
    /\ users' = ResetReady(users)
    /\ emitted' = <<QueueUpdate(queue, target, isPlaying, 0)>>
    /\ timeouts' = IF NavPrepares
                   THEN timeouts \cup {[id |-> NewId(TimerIds), kind |-> "prepare",
                                        due |-> now + NAV_PREPARE_DELAY]}
                   ELSE timeouts
    /\ replies' = Outdated(replies)
    /\ UNCHANGED <<queue, isPlaying, playPauseLock, lastPlayPauseTime,
                   readyTimeout, useRedis, pendingSaves>>
    /\ ObserveStep(step)

NavigateTo(target, op) ==
    Navigated(target, [op |-> op, arg |-> "accepted", index |-> target])

\* the handler's range check fails: it returns at once
Ignored(step) ==
    /\ emitted' = <<>>
    /\ UNCHANGED <<roomVars, timerVars, replies>>
    /\ ObserveStep(step)

Dropped(op, index) == Ignored([op |-> op, arg |-> "dropped", index |-> index])

Skip(u) ==
    /\ u \in DOMAIN users
    /\ Command
    /\ IF currentTrackIndex < Len(queue) - 1
       THEN NavigateTo(currentTrackIndex + 1, "skip")
       ELSE Dropped("skip", currentTrackIndex + 1)

Previous(u) ==
    /\ u \in DOMAIN users
    /\ Command
    /\ IF currentTrackIndex > 0
       THEN NavigateTo(currentTrackIndex - 1, "previous")
       ELSE Dropped("previous", currentTrackIndex - 1)

\* InRange without its lower bound
InRange_NoLowerBound(index) == index < Len(queue)

\* index >= 0 && index < roomState.queue.length
InRange(index) == index >= 0 /\ index < Len(queue)

JumpToTrack(u, index) ==
    /\ u \in DOMAIN users
    /\ Command
    /\ IF InRange(index)
       THEN NavigateTo(index, "jump-to-track")
       ELSE Dropped("jump-to-track", index)

\* SeekStart starting the clock at the seek itself
SeekStart_FromZero(time) == now

\* roomState.startTime = Date.now() - (time * 1000)
SeekStart(time) == now - time

Seek(u, time) ==
    /\ u \in DOMAIN users
    /\ Command
    /\ currentTime' = time
    /\ startTime' = SeekStart(time)
    /\ emitted' = <<PlayerUpdate(isPlaying, time)>>
    /\ UNCHANGED <<queue, currentTrackIndex, isPlaying, users, timerVars, replies>>
    /\ ObserveStep([op |-> "seek", arg |-> "accepted", time |-> time])

---------------------------------------------------------------------------
(* Queue mutations *)

\* await roomStateManager.setState(roomState), then io.emit('queue-update').
\* Without the snapshot store setState awaits nothing and the handler goes on
\* before any other event is handled; with it the handler is suspended until
\* the store answers (SaveDone).
SaveThenUpdate(q, idx, playing, ct) ==
    IF useRedis
    THEN /\ pendingSaves' = pendingSaves + 1
         /\ emitted' = <<>>
    ELSE /\ pendingSaves' = pendingSaves
         /\ emitted' = <<QueueUpdate(q, idx, playing, ct)>>

\* Pushed putting the track in front
Pushed_Front(q, track) == <<track>> \o q

\* roomState.queue.push({...track, addedBy, addedAt})
Pushed(q, track) == Append(q, track)

AddToQueue(u, track) ==
    /\ u \in DOMAIN users
    /\ Len(queue) < MaxQueue
    /\ Command
    /\ queue' = Pushed(queue, track)
    /\ SaveThenUpdate(queue', currentTrackIndex, isPlaying, currentTime)
    /\ UNCHANGED <<currentTrackIndex, isPlaying, currentTime, startTime, users,
                   syncInterval, intervals, playPauseLock, lastPlayPauseTime,
                   readyTimeout, timeouts, useRedis, replies>>
    /\ Observe("add-to-queue", "accepted")

\* the rest of a handler suspended in await setState(...)
SaveDone ==
    /\ pendingSaves > 0
    /\ ~(manager.auto.pending /\ manager.auto.ahead = 0)   \* the store answers in order
    /\ pendingSaves' = pendingSaves - 1
    /\ emitted' = <<QueueUpdate(queue, currentTrackIndex, isPlaying, currentTime)>>
    /\ UNCHANGED <<roomVars, syncInterval, intervals, playPauseLock,
                   lastPlayPauseTime, readyTimeout, timeouts, useRedis, replies,
                   cmds, advances>>
    /\ Observe("save-done", "")

\* the handler takes newState.queue and newState.currentTrackIndex as sent
ReorderQueue(u, newQueue, newIndex) ==
    /\ u \in DOMAIN users
    /\ Command
    /\ queue' = newQueue
    /\ currentTrackIndex' = newIndex
    /\ emitted' = <<QueueUpdate(newQueue, newIndex, isPlaying, currentTime)>>
    /\ UNCHANGED <<isPlaying, currentTime, startTime, users, timerVars, replies>>
    /\ Observe("reorder-queue", "accepted")

\* Splice removing the element before the one asked for
Splice_OffByOne(q, index) ==
    [i \in 1..(Len(q) - 1) |-> IF i < index THEN q[i] ELSE q[i + 1]]

\* roomState.queue.splice(index, 1)
Splice(q, index) == [i \in 1..(Len(q) - 1) |-> IF i <= index THEN q[i] ELSE q[i + 1]]

\* currentTrackIndex after the handler's adjustment before the splice
IndexBeforeSplice(index) ==
    IF index < currentTrackIndex THEN currentTrackIndex - 1
    ELSE IF index = currentTrackIndex
    THEN IF Len(queue) <= 1 THEN 0
         ELSE IF currentTrackIndex >= Len(queue) - 1 THEN 0
         ELSE currentTrackIndex
    ELSE currentTrackIndex

\* "adjust index if we exceeded the end"
IndexAfterSplice(idx, q) ==
    IF idx >= Len(q) /\ Len(q) > 0 THEN Len(q) - 1 ELSE idx

\* the branch of the remove-from-queue handler that index takes
RemoveOutcome(index) ==
    IF index < 0 \/ index >= Len(queue) THEN "dropped"
    ELSE IF index < currentTrackIndex THEN "shifted"
    ELSE IF index = currentTrackIndex
    THEN IF Len(queue) <= 1 THEN "stopped"
         ELSE IF currentTrackIndex >= Len(queue) - 1 THEN "rewound"
         ELSE "accepted"
    ELSE "accepted"

RemoveFromQueue(u, index) ==
    /\ u \in DOMAIN users
    /\ Command
    /\ IF index < 0 \/ index >= Len(queue)
       THEN Dropped("remove-from-queue", index)
       ELSE LET stops == index = currentTrackIndex /\ Len(queue) <= 1 IN
            /\ queue' = Splice(queue, index)
            /\ currentTrackIndex' = IndexAfterSplice(IndexBeforeSplice(index), queue')
            /\ isPlaying' = IF stops THEN FALSE ELSE isPlaying
            /\ currentTime' = IF stops THEN 0 ELSE currentTime
            /\ intervals' = IF stops THEN Clear(intervals, syncInterval) ELSE intervals
            /\ syncInterval' = IF stops THEN NULL ELSE syncInterval
            /\ SaveThenUpdate(queue', currentTrackIndex', isPlaying', currentTime')
            /\ UNCHANGED <<startTime, users, playPauseLock, lastPlayPauseTime,
                           readyTimeout, timeouts, useRedis, replies>>
            /\ ObserveStep([op |-> "remove-from-queue", arg |-> RemoveOutcome(index),
                            index |-> index,
                            undoes |-> beforeAdd.set /\ index = Len(queue) - 1])

---------------------------------------------------------------------------
(* setTimeout callbacks *)

\* the ready timeout armed by play
ReadyTimeoutFires ==
    \E t \in timeouts :
      /\ t.kind = "ready"
      /\ t.due <= now
      /\ timeouts' = timeouts \ {t}
      /\ IF isPlaying
         THEN StartSynchronizedPlayback(TimerIds \ {t.id})
         ELSE /\ emitted' = <<>>
              /\ UNCHANGED <<syncInterval, intervals>>
      /\ readyTimeout' = NULL
      /\ UNCHANGED <<roomVars, playPauseLock, lastPlayPauseTime, useRedis, pendingSaves,
                     replies, cmds, advances>>
      /\ Observe("ready-timeout", "")

\* setTimeout(() => { playPauseLock = false; }, 100)
LockReleased ==
    \E t \in timeouts :
      /\ t.kind = "unlock"
      /\ t.due <= now
      /\ timeouts' = timeouts \ {t}
      /\ playPauseLock' = FALSE
      /\ emitted' = <<>>
      /\ UNCHANGED <<roomVars, syncInterval, intervals, lastPlayPauseTime,
                     readyTimeout, useRedis, pendingSaves, replies, cmds, advances>>
      /\ Observe("unlock", "")

\* the delayed prepare-playback of a navigation or an end-of-track advance
PrepareFires ==
    \E t \in timeouts :
      /\ t.kind = "prepare"
      /\ t.due <= now
      /\ timeouts' = timeouts \ {t}
      /\ emitted' = <<PreparePlayback(currentTrackIndex, 0, now)>>
      /\ replies' = Asked(replies, users)
      /\ UNCHANGED <<roomVars, syncInterval, intervals, playPauseLock,
                     lastPlayPauseTime, readyTimeout, useRedis, pendingSaves, cmds, advances>>
      /\ Observe("prepare", "")

---------------------------------------------------------------------------
(* The clock *)

Max(a, b) == IF a >= b THEN a ELSE b

Dues == {t.due : t \in timeouts} \cup {t.due : t \in intervals}

\* the next instants at which something can change: a timer falls due, the
\* play/pause cooldown ends, or nothing happens for IdleWait
Instants == Dues \cup {lastPlayPauseTime + PLAY_PAUSE_COOLDOWN, now + IdleWait}

\* a timestamp after d ms have passed; one older than `floor` is as good as `floor`
Aged(ts, d, floor) == IF ts = NULL THEN NULL ELSE Max(ts - d, floor)

\* d ms pass, up to the next instant; a due timer runs before time moves on
Advance ==
    \E t \in Instants :
      LET d == t - now IN
      /\ d > 0
      /\ advances < MaxAdvances
      /\ advances' = advances + 1
      /\ \A due \in Dues : t <= due
      /\ startTime # NULL => now - startTime + d <= MaxElapsed
      /\ timeouts' = {[x EXCEPT !.due = @ - d] : x \in timeouts}
      /\ intervals' = {[x EXCEPT !.due = @ - d] : x \in intervals}
      /\ startTime' = IF startTime = NULL THEN NULL ELSE startTime - d
      /\ lastPlayPauseTime' = Aged(lastPlayPauseTime, d, now - PLAY_PAUSE_COOLDOWN)
      /\ lastPrepareAt' = Aged(lastPrepareAt, d, now - MaxElapsed)
      /\ emitted' = <<>>
      /\ last' = [op |-> "advance", arg |-> ""]
      /\ UNCHANGED <<queue, currentTrackIndex, isPlaying, currentTime, users,
                     syncInterval, playPauseLock, readyTimeout, useRedis, pendingSaves,
                     replies, cmds, sincePause, navWindow, lastSyncTime, beforeAdd,
                     client>>
      /\ manager' = [manager EXCEPT !.store = AgedSnapshot(@, d)]

---------------------------------------------------------------------------
\* the orders of q a client may send back
Reorderings(q) == {[i \in 1..Len(q) |-> q[p[i]]] :
                     p \in {f \in [1..Len(q) -> 1..Len(q)] :
                              \A i, j \in 1..Len(q) : i # j => f[i] # f[j]}}

\* a client sends the queue back in some order, with some index
Reorder(u) ==
    \E q \in Reorderings(queue), i \in 0..Len(queue) : ReorderQueue(u, q, i)

\* indices a client may send: every position of the queue, one below, one above
Indices == (0 - 1)..Len(queue)

\* The command handlers never look at which socket sent the command, so one
\* connected socket sends them all.
Senders == IF DOMAIN users = {} THEN {} ELSE {CHOOSE u \in DOMAIN users : TRUE}

Next ==
    \/ \E u \in Users : Connect(u)
    \/ \E u \in Users : Disconnect(u)
    \/ \E u \in Users, tag \in {"cur", "old"} : ReadyToPlay(u, tag)
    \/ \E u \in Senders : Play(u)
    \/ \E u \in Senders : Pause(u)
    \/ \E u \in Senders : Skip(u)
    \/ \E u \in Senders : Previous(u)
    \/ \E u \in Senders, i \in Indices : JumpToTrack(u, i)
    \/ \E u \in Senders, t \in SeekTimes : Seek(u, t)
    \/ \E u \in Senders, tr \in Tracks : AddToQueue(u, tr)
    \/ \E u \in Senders : Reorder(u)
    \/ \E u \in Senders, i \in Indices : RemoveFromQueue(u, i)
    \/ SyncTick
    \/ ReadyTimeoutFires
    \/ LockReleased
    \/ PrepareFires
    \/ Advance

Spec == Init /\ [][Next]_vars

---------------------------------------------------------------------------
(* Latency measurement: the ping handler.  Spec leaves latency and lastPing
   out of the session records, since only this handler reads or writes them;
   SpecPing keeps them and runs connection, disconnection, ping and the clock. *)

\* how far the clock moves in one step of SpecPing
PingStep == 1000
\* a lastPing older than this is as good as this old
MaxPingAge == 2000

\* a JavaScript number: an integer or NaN
Num(v) == [nan |-> FALSE, v |-> v]
NaN == [nan |-> TRUE, v |-> 0]

\* round-trip times of the pings a client may send (ms)
RoundTrips == {0 - 2, 0 - 1, 0, 1, 2, 3, 19999, 20000, 20001, 20002}
\* what a client may send with ping: Date.now() of some moment, or no number
Timestamps == {Num(now - r) : r \in RoundTrips} \cup {NaN}

\* now - timestamp
Minus(a, b) == IF a.nan \/ b.nan THEN NaN ELSE Num(a.v - b.v)
\* Math.floor(roundTripTime / 2)
FloorHalf(a) == IF a.nan THEN NaN ELSE Num(a.v \div 2)
\* a < b and a > b of JavaScript: false when either side is NaN
Less(a, b) == ~a.nan /\ ~b.nan /\ a.v < b.v
Greater(a, b) == ~a.nan /\ ~b.nan /\ a.v > b.v

\* if (latency < 0) return; if (latency > 10000) return;
PingRejected(latency) ==
    Less(latency, Num(0)) \/ Greater(latency, Num(10000))

PingConnect(u) ==
    /\ u \notin DOMAIN users
    /\ users' = [v \in DOMAIN users \cup {u} |->
                    IF v = u THEN [ready |-> FALSE, latency |-> Num(0), lastPing |-> now]
                    ELSE users[v]]
    /\ emitted' = <<[type |-> "room-state", to |-> u]>>
    /\ UNCHANGED <<queue, currentTrackIndex, isPlaying, currentTime, startTime,
                   timerVars, replies, cmds, advances>>
    /\ Observe("connect", "")

Ping(u, timestamp) ==
    /\ u \in DOMAIN users
    /\ LET roundTripTime == Minus(Num(now), timestamp)
           latency == FloorHalf(roundTripTime)
       IN
       /\ IF PingRejected(latency)
          THEN /\ emitted' = <<>>
               /\ UNCHANGED users
          ELSE /\ users' = [users EXCEPT ![u].latency = latency, ![u].lastPing = now]
               /\ emitted' = <<[type |-> "pong", to |-> u, clientTimestamp |-> timestamp,
                                serverTimestamp |-> now, latency |-> latency]>>
       /\ last' = [op |-> "ping", arg |-> "", user |-> u, rtt |-> roundTripTime]
    /\ UNCHANGED <<queue, currentTrackIndex, isPlaying, currentTime, startTime,
                   timerVars, replies, cmds, advances, lastPrepareAt, sincePause,
                   navWindow, lastSyncTime, beforeAdd, client, manager>>

\* PingStep ms pass
PingAdvance ==
    /\ users' = [u \in DOMAIN users |->
                    [users[u] EXCEPT !.lastPing = Max(@ - PingStep, now - MaxPingAge)]]
    /\ users' # users
    /\ emitted' = <<>>
    /\ last' = [op |-> "advance", arg |-> ""]
    /\ UNCHANGED <<queue, currentTrackIndex, isPlaying, currentTime, startTime,
                   timerVars, replies, cmds, advances, lastPrepareAt, sincePause,
                   navWindow, lastSyncTime, beforeAdd, client, manager>>

NextPing ==
    \/ \E u \in Users : PingConnect(u)
    \/ \E u \in Users : Disconnect(u)
    \/ \E u \in Users, ts \in Timestamps : Ping(u, ts)
    \/ PingAdvance

SpecPing == Init /\ [][NextPing]_vars

---------------------------------------------------------------------------
(* The server with the snapshot store enabled (REDIS_ENABLED = 'true'):
   add-to-queue and remove-from-queue are suspended in await setState(...)
   and go on, with their queue-update, when the store has answered. *)

InitRedis ==
    /\ queue \in StartQueues
    /\ currentTrackIndex = 0
    /\ isPlaying = FALSE
    /\ currentTime = 0
    /\ startTime = NULL
    /\ users = [u \in {} |-> [ready |-> FALSE]]
    /\ syncInterval = NULL
    /\ intervals = {}
    /\ playPauseLock = FALSE
    /\ lastPlayPauseTime = now - PLAY_PAUSE_COOLDOWN
    /\ readyTimeout = NULL
    /\ timeouts = {}
    /\ useRedis = TRUE
    /\ pendingSaves = 0
    /\ emitted = <<>>
    /\ replies = [u \in Users |-> {}]
    /\ cmds = 0
    /\ advances = 0
    /\ last = [op |-> "init", arg |-> ""]
    /\ lastPrepareAt = NULL
    /\ sincePause = FALSE
    /\ navWindow = FALSE
    /\ lastSyncTime = NULL
    /\ beforeAdd = [set |-> FALSE, q |-> <<>>]
    /\ client = NewClient
    /\ manager = ManagerAfter(queue)

NextRedis ==
    \/ Next
    \/ SaveDone

SpecRedis == InitRedis /\ [][NextRedis]_vars

---------------------------------------------------------------------------
(* Restarts with the snapshot store enabled.  The process runs startServer,
   serves clients, and ends, killed or by SIGTERM; the next process finds in
   the store what the last one left there.  Time does not pass: no timer
   falls due between two restarts.  Socket ids are never used twice, so a
   session restored from the snapshot belongs to no socket of the new
   process. *)

\* number of restarts in one behaviour
MaxRestarts == 2

\* what a reference to a state object holds now
StateOf(ref) == IF ref = "initial" THEN InitialState ELSE LiveState

\* the sockets connected to this process
Live == DOMAIN users \ manager.restored

LiveSenders == IF Live = {} THEN {} ELSE {CHOOSE u \in Live : TRUE}

\* setInterval(async () => { await this.setState(this.memoryState) }, 5000),
\* up to the await: the snapshot of memoryState goes to the store
AutoSave(ok) ==
    /\ useRedis
    /\ ~manager.auto.pending
    /\ manager' = [manager EXCEPT
                     !.store = IF ok THEN StateOf(manager.memoryState) ELSE @,
                     !.auto = [pending |-> TRUE, state |-> manager.memoryState,
                               ahead |-> pendingSaves]]
    /\ emitted' = <<>>
    /\ last' = [op |-> "auto-save", arg |-> IF ok THEN "saved" ELSE "failed"]
    /\ UNCHANGED <<roomVars, timerVars, replies, cmds, advances, lastPrepareAt,
                   sincePause, navWindow, lastSyncTime, beforeAdd, client>>

\* the periodic save after its await: this.memoryState = state
AutoSaveDone ==
    /\ manager.auto.pending
    /\ manager.auto.ahead = 0
    /\ manager' = [manager EXCEPT
                     !.memoryState = Recorded(manager, manager.auto.state, TRUE),
                     !.auto = NoAutoSave]
    /\ emitted' = <<>>
    /\ last' = [op |-> "auto-save-done", arg |-> ""]
    /\ UNCHANGED <<roomVars, timerVars, replies, cmds, advances, lastPrepareAt,
                   sincePause, navWindow, lastSyncTime, beforeAdd, client>>

\* getState(): a reference to the parsed snapshot when the store is enabled,
\* answers (loaded) and holds one, else memoryState
GetState(m, loaded, redis) ==
    IF redis /\ loaded /\ m.store.saved THEN "parsed" ELSE m.memoryState

\* new Map(Object.entries(parsed.usersObj || {}))
UsersOf(snap) == snap.usersObj

\* if (savedState && savedState.queue.length > 0) roomState = savedState
Adopted(savedState) == Len(savedState.queue) > 0

\* The process ends and a new one runs startServer.  graceful: the process
\* got SIGTERM and its handler called setState(roomState) first, which the
\* store took (saved) or not.
Restart(graceful, saved, loaded) ==
    /\ useRedis
    /\ manager.boots < MaxRestarts
    /\ LET store == IF graceful /\ saved THEN LiveState ELSE manager.store
           got == GetState([NewManager EXCEPT !.store = store], loaded, useRedis)
           savedState == IF got = "parsed" THEN store ELSE InitialState
           state == IF Adopted(savedState) THEN savedState ELSE InitialState
       IN
       /\ queue' = state.queue
       /\ currentTrackIndex' = state.currentTrackIndex
       /\ isPlaying' = state.isPlaying
       /\ currentTime' = state.currentTime
       /\ startTime' = state.startTime
       /\ users' = UsersOf(state)
       /\ manager' = [memoryState |-> "initial", store |-> store, auto |-> NoAutoSave,
                      hydrated |-> Adopted(savedState),
                      restored |-> DOMAIN UsersOf(state),
                      boots |-> manager.boots + 1]
       /\ last' = [op |-> "start-server",
                   arg |-> IF Adopted(savedState) THEN "hydrated" ELSE "fresh"]
    /\ syncInterval' = NULL
    /\ intervals' = {}
    /\ playPauseLock' = FALSE
    /\ lastPlayPauseTime' = now - PLAY_PAUSE_COOLDOWN
    /\ readyTimeout' = NULL
    /\ timeouts' = {}
    /\ pendingSaves' = 0
    /\ emitted' = <<>>
    /\ replies' = [u \in Users |-> {}]
    /\ lastPrepareAt' = NULL
    /\ sincePause' = FALSE
    /\ navWindow' = FALSE
    /\ lastSyncTime' = NULL
    /\ beforeAdd' = [set |-> FALSE, q |-> <<>>]
    /\ UNCHANGED <<useRedis, cmds, advances, client>>

\* a new process, nothing in the store
InitRestart == InitRedis /\ queue = <<>>

NextRestart ==
    \/ \E u \in Users : Connect(u)
    \/ \E u \in Live : Disconnect(u)
    \/ \E u \in Live, tag \in {"cur", "old"} : ReadyToPlay(u, tag)
    \/ \E u \in LiveSenders : Play(u)
    \/ \E u \in LiveSenders, tr \in Tracks : AddToQueue(u, tr)
    \/ \E u \in LiveSenders, i \in Indices : RemoveFromQueue(u, i)
    \/ \E u \in LiveSenders, i \in Indices : JumpToTrack(u, i)
    \/ SaveDone
    \/ \E ok \in BOOLEAN : AutoSave(ok)
    \/ AutoSaveDone
    \/ \E graceful, saved, loaded \in BOOLEAN : Restart(graceful, saved, loaded)

SpecRestart == InitRestart /\ [][NextRestart]_vars

---------------------------------------------------------------------------
(* RoomStateManager.setState and getState by themselves, with the store
   enabled: a caller saves the constructor's state or the room and reads the
   state back, while sockets connect and disconnect; each store operation
   succeeds or throws. *)

StateRefs == {"initial", "roomState"}

\* await setState(state): the whole call, the caller goes on when it returns
SetState(state, ok) ==
    /\ manager' = [SetStateCalled(manager, state, StateOf(state), ok, useRedis)
                     EXCEPT !.memoryState = Recorded(manager, state, ok)]
    /\ emitted' = <<>>
    /\ last' = [op |-> "setState", arg |-> IF ok THEN "saved" ELSE "failed",
                state |-> state]
    /\ UNCHANGED <<roomVars, timerVars, replies, cmds, advances, lastPrepareAt,
                   sincePause, navWindow, lastSyncTime, beforeAdd, client>>

\* await getState(); prev is the call before it
CallGetState(loaded) ==
    /\ last' = [op |-> "getState", arg |-> IF loaded THEN "loaded" ELSE "failed",
                returned |-> GetState(manager, loaded, useRedis),
                prev |-> [op |-> last.op, arg |-> last.arg]]
    /\ emitted' = <<>>
    /\ UNCHANGED <<roomVars, timerVars, replies, cmds, advances, lastPrepareAt,
                   sincePause, navWindow, lastSyncTime, beforeAdd, client, manager>>

NextManager ==
    \/ \E u \in Users : Connect(u)
    \/ \E u \in Users : Disconnect(u)
    \/ \E state \in StateRefs, ok \in BOOLEAN : SetState(state, ok)
    \/ \E loaded \in BOOLEAN : CallGetState(loaded)

SpecManager == InitRestart /\ [][NextManager]_vars

---------------------------------------------------------------------------
(* The server from the moment playback has started.  u1 connected and sent
   play, did not answer the prepare-playback, and READY_TIMEOUT_MS later the
   ready timeout has just called startSynchronizedPlayback: a state that Spec
   reaches (StartedReached), taken as the start so that the command budget
   covers what clients send during playback. *)

Started ==
    /\ currentTrackIndex = 0
    /\ isPlaying = TRUE
    /\ currentTime = 0
    /\ startTime = now - READY_TIMEOUT_MS
    /\ users = [u \in {"u1"} |-> [ready |-> FALSE]]
    /\ syncInterval = 1
    /\ intervals = {[id |-> 1, due |-> now + SYNC_INTERVAL]}
    /\ playPauseLock = FALSE
    /\ lastPlayPauseTime = now - PLAY_PAUSE_COOLDOWN
    /\ readyTimeout = NULL
    /\ timeouts = {}
    /\ useRedis = FALSE
    /\ pendingSaves = 0
    /\ emitted = <<SynchronizedPlay(0, now)>>
    /\ replies = [u \in Users |-> IF u = "u1" THEN {"cur"} ELSE {}]
    /\ last = [op |-> "ready-timeout", arg |-> ""]
    /\ lastPrepareAt = now - READY_TIMEOUT_MS
    /\ sincePause = FALSE
    /\ navWindow = FALSE
    /\ lastSyncTime = NULL
    /\ beforeAdd = [set |-> FALSE, q |-> <<>>]
    /\ client = NewClient
    /\ manager = ManagerAfter(queue)

InitStarted ==
    /\ queue \in StartQueues
    /\ Started
    /\ cmds = 0
    /\ advances = 0

SpecStarted == InitStarted /\ [][Next]_vars

---------------------------------------------------------------------------
(* The end of a track with clients listening.  Each client's media element
   plays the current track to its end and then fires 'ended', on which the
   client emits skip (AudioPlayerManager 'ended' listener, handleTrackEnded,
   SyncJam.onAudioTrackEnded); a client whose source is replaced first emits
   nothing.  The element may lead the server's clock by the drift that
   handleTimeSync leaves alone, or lag it, so its skip reaches the server
   before the ticker's end-of-track or right after it.  The room plays the
   first of three tracks (Started). *)

ThreeTracks ==
    <<[id |-> "A", duration |-> 200], [id |-> "B", duration |-> 300],
      [id |-> "C", duration |-> 100]>>

\* [track, users]: the track whose end the clients' media elements are
\* reaching now, and the clients whose skip for it has arrived
EndOfMedia ==
    IF /\ Mode = "Playing" /\ startTime # NULL
       /\ currentTrackIndex >= 0 /\ currentTrackIndex < Len(queue)
       /\ now - startTime >= queue[currentTrackIndex + 1].duration - DRIFT_THRESHOLD
    THEN {[track |-> currentTrackIndex, users |-> {}]}
    ELSE IF last.op = "tick" /\ HasMsg(emitted, "queue-update")
    THEN {[track |-> currentTrackIndex - 1, users |-> {}]}
    ELSE IF last.op = "tick" /\ HasMsg(emitted, "player-update")
    THEN {[track |-> currentTrackIndex, users |-> {}]}
    ELSE IF last.op = "skip" /\ "ended" \in DOMAIN last
    THEN {[track |-> last.ended, users |-> last.users]}
    ELSE {}

\* the media element of client u fires 'ended'; its skip arrives
MediaEnded(u) ==
    /\ u \in DOMAIN users
    /\ UNCHANGED <<cmds, advances>>
    /\ \E e \in EndOfMedia :
         /\ u \notin e.users
         /\ LET step(arg) == [op |-> "skip", arg |-> arg, index |-> currentTrackIndex + 1,
                              ended |-> e.track, users |-> e.users \cup {u}]
            IN IF currentTrackIndex < Len(queue) - 1
               THEN Navigated(currentTrackIndex + 1, step("accepted"))
               ELSE Ignored(step("dropped"))

InitEnded ==
    /\ queue = ThreeTracks
    /\ Started
    /\ cmds = 0
    /\ advances = 0

\* nobody joins: a client that joins during playback is not playing
NextEnded ==
    \/ \E u \in Users : Disconnect(u)
    \/ \E u \in Users, tag \in {"cur", "old"} : ReadyToPlay(u, tag)
    \/ \E u \in Users : MediaEnded(u)
    \/ SyncTick
    \/ PrepareFires
    \/ Advance

SpecEnded == InitEnded /\ [][NextEnded]_vars

---------------------------------------------------------------------------
(* Removal from longer queues.  The room is paused with up to three tracks,
   u1 connected, any track current and the position sought to: what
   add-to-queue, jump-to-track and seek leave behind.  From there the client
   removes tracks, jumps and reorders. *)

RemoveQueues ==
    {<<>>,
     <<[id |-> "A", duration |-> 200]>>,
     <<[id |-> "A", duration |-> 200], [id |-> "B", duration |-> 300]>>,
     <<[id |-> "A", duration |-> 200], [id |-> "B", duration |-> 300],
       [id |-> "C", duration |-> 100]>>}

InitRemove ==
    /\ queue \in RemoveQueues
    /\ currentTrackIndex \in 0..Max(Len(queue) - 1, 0)
    /\ isPlaying = FALSE
    /\ currentTime \in SeekTimes
    /\ startTime = now - currentTime
    /\ users = [u \in {"u1"} |-> [ready |-> FALSE]]
    /\ syncInterval = NULL
    /\ intervals = {}
    /\ playPauseLock = FALSE
    /\ lastPlayPauseTime = now - PLAY_PAUSE_COOLDOWN
    /\ readyTimeout = NULL
    /\ timeouts = {}
    /\ useRedis = FALSE
    /\ pendingSaves = 0
    /\ emitted = <<PlayerUpdate(FALSE, currentTime)>>
    /\ replies = [u \in Users |-> {}]
    /\ cmds = 0
    /\ advances = 0
    /\ last = [op |-> "seek", arg |-> "accepted", time |-> currentTime]
    /\ lastPrepareAt = NULL
    /\ sincePause = FALSE
    /\ navWindow = FALSE
    /\ lastSyncTime = NULL
    /\ beforeAdd = [set |-> FALSE, q |-> <<>>]
    /\ client = NewClient
    /\ manager = ManagerAfter(queue)

NextRemove ==
    \/ \E u \in Senders, i \in Indices : RemoveFromQueue(u, i)
    \/ \E u \in Senders, i \in Indices : JumpToTrack(u, i)
    \/ \E u \in Senders : Reorder(u)

SpecRemove == InitRemove /\ [][NextRemove]_vars

\* RoomStateManager.removeFromQueue(index) on a state with queue q and
\* currentTrackIndex c: the splice comes first, the checks read the new length
ManagerRemoveFromQueue(q, c, index) ==
    IF ~(index >= 0 /\ index < Len(q)) THEN [queue |-> q, currentTrackIndex |-> c]
    ELSE LET spliced == Splice(q, index) IN
         [queue |-> spliced,
          currentTrackIndex |->
             IF index < c THEN c - 1
             ELSE IF index = c
             THEN IF Len(spliced) <= 0 THEN 0
                  ELSE IF c >= Len(spliced) THEN Max(0, Len(spliced) - 1)
                  ELSE c
             ELSE c]

---------------------------------------------------------------------------
(* The client's drift correction (SyncJam.handleTimeSync).  One client is
   followed: its media element, the part of roomState the handler reads, and
   its timers.  client.audioPlayer stands for audioPlayer && audioElement,
   client.audioTime for audio.currentTime (ms), client.playbackRate for
   audio.playbackRate (percent), client.isPlaying and client.currentTime for
   the client's roomState.  The server's variables do not move here. *)

\* positions the media element may be at by playing or stalling (ms)
PlayerTimes == {1000}
\* currentTime a sync-time may carry (ms)
ServerTimes == {1000, 1100, 1300, 1301, 1500, 1501, 1999, 2000}
\* latencies a pong may carry (ms)
Latencies == {0, 40}

\* number of times the client's clock moves on in one behaviour
MaxClientAdvances == 3

historyVars == <<replies, lastPrepareAt, sincePause, navWindow, lastSyncTime, beforeAdd>>

Abs(x) == IF x < 0 THEN 0 - x ELSE x

\* Math.abs(serverTime - clientTime)
Drift(c, serverTime) == Abs(serverTime - c.audioTime)

DriftThreshold_Fixed(c) == DRIFT_THRESHOLD

\* consecutiveResyncs > 2 ? 0.5 : 0.3
DriftThreshold(c) ==
    IF c.consecutiveResyncs > 2 THEN DRIFT_THRESHOLD_TOLERANT ELSE DRIFT_THRESHOLD

HardSeekTarget_NoLatency(c, serverTime) == serverTime

\* serverTime + clientLatency / 1000
HardSeekTarget(c, serverTime) == serverTime + c.clientLatency

\* SoftRate the wrong way round
SoftRate_Reversed(c, serverTime) == IF serverTime > c.audioTime THEN 90 ELSE 110

\* serverTime > clientTime ? 1.1 : 0.9
SoftRate(c, serverTime) == IF serverTime > c.audioTime THEN 110 ELSE 90

\* CooledDown without the cooldown
CooledDown_Always(c) == TRUE

\* not (timeSinceLastResync < this.resyncCooldown)
CooledDown(c) == now - c.lastResyncTime >= c.resyncCooldown

\* the client after handleTimeSync({currentTime: serverTime})
TimeSynced(c, serverTime) ==
  LET drift == Drift(c, serverTime)
      resynced == [c EXCEPT !.lastResyncTime = now, !.consecutiveResyncs = @ + 1]
      rateTimer == [kind |-> "rate", due |-> now + RATE_ADJUST_MS]
      resetTimer == [kind |-> "reset", due |-> now + RESYNC_RESET_MS]
      shown(d) == [d EXCEPT !.currentTime = serverTime]
  IN
  IF ~c.audioPlayer \/ ~c.isPlaying THEN c
  ELSE IF c.isTransitioning THEN c
  ELSE IF drift > DriftThreshold(c)
  THEN IF ~CooledDown(c) THEN c
       ELSE IF c.consecutiveResyncs >= maxConsecutiveResyncs
       THEN [c EXCEPT !.resyncCooldown = DEGRADED_COOLDOWN, !.consecutiveResyncs = 0]
       ELSE IF drift < HARD_SEEK_DRIFT
       THEN IF c.isAdjustingPlaybackRate THEN resynced
            ELSE shown([resynced EXCEPT
                          !.isAdjustingPlaybackRate = TRUE,
                          !.playbackRate = SoftRate(c, serverTime),
                          !.timers = @ \cup {rateTimer, resetTimer}])
       ELSE shown([resynced EXCEPT
                     !.audioTime = HardSeekTarget(c, serverTime),
                     !.timers = @ \cup {resetTimer}])
  ELSE shown(IF drift < IN_SYNC_DRIFT THEN [c EXCEPT !.consecutiveResyncs = 0] ELSE c)

ClientStep(name) ==
    /\ emitted' = <<>>
    /\ last' = [op |-> "client", arg |-> name]
    /\ UNCHANGED <<roomVars, timerVars, historyVars, cmds, manager>>
    /\ advances' = IF name = "advance" THEN advances + 1 ELSE advances

\* socket.on('sync-time')
HandleTimeSync(serverTime) ==
    /\ LET c == TimeSynced(client, serverTime) IN
       client' = [c EXCEPT !.correctedAt =
                     IF c.playbackRate # client.playbackRate \/ c.audioTime # client.audioTime
                     THEN now ELSE @]
    /\ emitted' = <<>>
    /\ last' = [op |-> "sync-time", arg |-> "", serverTime |-> serverTime]
    /\ UNCHANGED <<roomVars, timerVars, historyVars, cmds, advances, manager>>

\* initializeAudioPlayer: the player and its media element exist
AudioLoaded(t) ==
    /\ ~client.audioPlayer
    /\ client' = [client EXCEPT !.audioPlayer = TRUE, !.audioTime = t, !.playbackRate = 100]
    /\ ClientStep("audio-loaded")

\* the media element plays on, stalls or is sought by another handler
AudioMoves(t) ==
    /\ client.audioPlayer
    /\ t # client.audioTime
    /\ client' = [client EXCEPT !.audioTime = t]
    /\ ClientStep("audio-moves")

\* socket.on('player-update')
OnPlayerUpdate(playing, t) ==
    /\ client' = [client EXCEPT !.isPlaying = playing, !.currentTime = t]
    /\ client' # client
    /\ ClientStep("player-update")

\* socket.on('queue-update') with another currentTrackIndex
TrackChanged ==
    /\ ~client.isTransitioning
    /\ client' = [client EXCEPT !.isTransitioning = TRUE, !.consecutiveResyncs = 0]
    /\ ClientStep("queue-update")

\* socket.on('pong')
Pong(latency) ==
    /\ latency # client.clientLatency
    /\ client' = [client EXCEPT !.clientLatency = latency]
    /\ ClientStep("pong")

ClientDue(kind) == {t \in client.timers : t.kind = kind /\ t.due <= now}

\* 500 ms after a soft correction
RateRestored ==
    \E t \in ClientDue("rate") :
      /\ client' = [client EXCEPT
                      !.playbackRate = 100,
                      !.isAdjustingPlaybackRate = FALSE,
                      !.timers = @ \ {t}]
      /\ ClientStep("rate-restored")

\* Restored forgetting the cooldown
Restored_CounterOnly(c) == [c EXCEPT !.consecutiveResyncs = 0]

\* consecutiveResyncs = 0; resyncCooldown = 2000
Restored(c) == [c EXCEPT !.consecutiveResyncs = 0, !.resyncCooldown = RESYNC_COOLDOWN]

\* 10 s after a correction
ResyncReset ==
    \E t \in ClientDue("reset") :
      /\ client' = IF now - client.lastResyncTime >= RESYNC_RESET_MS
                   THEN [Restored(client) EXCEPT !.timers = @ \ {t}]
                   ELSE [client EXCEPT !.timers = @ \ {t}]
      /\ ClientStep("resync-reset")

\* the transition is over: 3 s after the track change, 1 s after
\* synchronized-play, or when the preparation fails
TransitionEnds ==
    /\ client.isTransitioning
    /\ client' = [client EXCEPT !.isTransitioning = FALSE]
    /\ ClientStep("transition-ends")

ClientDues == {t.due : t \in client.timers}
\* when something about the client changes by time alone
ClientInstants == ClientDues \cup {client.lastResyncTime + client.resyncCooldown}

\* time passes on the client, up to its next instant
ClientAdvance ==
    \E t \in ClientInstants :
      LET d == t - now IN
      /\ d > 0
      /\ advances < MaxClientAdvances
      /\ \A due \in ClientDues : t <= due
      /\ client' = [client EXCEPT
                      !.lastResyncTime = Max(@ - d, now - RESYNC_RESET_MS),
                      !.correctedAt = Max(@ - d, now - RESYNC_RESET_MS),
                      !.timers = {[x EXCEPT !.due = @ - d] : x \in @}]
      /\ ClientStep("advance")

NextClient ==
    \/ \E t \in ServerTimes : HandleTimeSync(t)
    \/ \E t \in PlayerTimes : AudioLoaded(t)
    \/ \E t \in PlayerTimes : AudioMoves(t)
    \/ \E playing \in BOOLEAN, t \in PlayerTimes : OnPlayerUpdate(playing, t)
    \/ TrackChanged
    \/ \E l \in Latencies : Pong(l)
    \/ RateRestored
    \/ ResyncReset
    \/ TransitionEnds
    \/ ClientAdvance

\* the room is as built, with an empty queue
InitClient == Init /\ queue = <<>>

SpecClient == InitClient /\ [][NextClient]_vars

---------------------------------------------------------------------------
(* The client from the moment it enters degraded mode.  Three hard seeks
   2 s apart used up maxConsecutiveResyncs, and the sync-time that came 2 s
   after the third raised the cooldown instead of correcting: a state that
   SpecClient reaches (DegradedReached), taken as the start so that the
   clock can move on through the degraded window. *)

DegradedClient ==
    [audioPlayer |-> TRUE,
     audioTime |-> 2000,
     playbackRate |-> 100,
     isPlaying |-> TRUE,
     currentTime |-> 2000,
     lastResyncTime |-> now - RESYNC_COOLDOWN,
     resyncCooldown |-> DEGRADED_COOLDOWN,
     isTransitioning |-> FALSE,
     consecutiveResyncs |-> 0,
     isAdjustingPlaybackRate |-> FALSE,
     clientLatency |-> 0,
     timers |-> {[kind |-> "reset", due |-> now + RESYNC_RESET_MS - 3 * RESYNC_COOLDOWN],
                 [kind |-> "reset", due |-> now + RESYNC_RESET_MS - 2 * RESYNC_COOLDOWN],
                 [kind |-> "reset", due |-> now + RESYNC_RESET_MS - RESYNC_COOLDOWN]},
     correctedAt |-> now - RESYNC_COOLDOWN,
     tracks |-> 0,
     trackIndex |-> 0,
     buffered |-> FALSE,
     loaded |-> NULL,
     loading |-> {},
     waits |-> <<>>]

InitDegraded ==
    /\ queue = <<>>
    /\ currentTrackIndex = 0
    /\ isPlaying = FALSE
    /\ currentTime = 0
    /\ startTime = NULL
    /\ users = [u \in {} |-> [ready |-> FALSE]]
    /\ syncInterval = NULL
    /\ intervals = {}
    /\ playPauseLock = FALSE
    /\ lastPlayPauseTime = now - PLAY_PAUSE_COOLDOWN
    /\ readyTimeout = NULL
    /\ timeouts = {}
    /\ useRedis = FALSE
    /\ pendingSaves = 0
    /\ emitted = <<>>
    /\ replies = [u \in Users |-> {}]
    /\ cmds = 0
    /\ advances = 0
    /\ last = [op |-> "sync-time", arg |-> "", serverTime |-> 1000]
    /\ lastPrepareAt = NULL
    /\ sincePause = FALSE
    /\ navWindow = FALSE
    /\ lastSyncTime = NULL
    /\ beforeAdd = [set |-> FALSE, q |-> <<>>]
    /\ client = DegradedClient
    /\ manager = NewManager

\* the player exists already
NextDegraded ==
    \/ \E t \in ServerTimes : HandleTimeSync(t)
    \/ \E t \in PlayerTimes : AudioMoves(t)
    \/ \E playing \in BOOLEAN, t \in PlayerTimes : OnPlayerUpdate(playing, t)
    \/ TrackChanged
    \/ \E l \in Latencies : Pong(l)
    \/ RateRestored
    \/ ResyncReset
    \/ TransitionEnds
    \/ ClientAdvance

SpecDegraded == InitDegraded /\ [][NextDegraded]_vars

---------------------------------------------------------------------------
(* The client's preparation for synchronized playback (SyncJam
   prepareForSynchronizedPlayback, waitForBuffer, executeSynchronizedPlay and
   the queue-update handler).  One client in a playing room with two tracks
   is followed.  A handler runs together with the continuations of the awaits
   that resolve at once: they are microtasks, and no timer or message comes
   between.  Tracks are named by their queue index; times are in ms. *)

BUFFER_POLL_MS == 100
BUFFER_TIMEOUT_MS == 10000
TRANSITION_MS == 3000
PLAY_SETTLE_MS == 1000

\* number of messages the client receives in one behaviour
MaxMessages == 3

\* startTime a prepare-playback or synchronized-play may carry (ms)
PrepareStarts == {0}

\* the client in a playing room of two tracks, with or without its player
PrepareClient(player) ==
    [NewClient EXCEPT
       !.audioPlayer = player,
       !.audioTime = IF player THEN 1000 ELSE 0,
       !.isPlaying = TRUE,
       !.currentTime = 1000,
       !.tracks = 2,
       !.loaded = IF player THEN 0 ELSE NULL,
       !.buffered = player]

ClientEmits(step, msgs) ==
    /\ emitted' = msgs
    /\ last' = step
    /\ UNCHANGED <<roomVars, timerVars, historyVars, manager, advances>>

\* loadAudioForTrack -> audioPlayer.loadTrack: nothing without a player or
\* for the track already loaded; otherwise the fetch of the URL starts
LoadAudioForTrack(c, i) ==
    IF ~c.audioPlayer \/ c.loaded = i THEN c
    ELSE [c EXCEPT !.loading = @ \cup {i}]

\* TimedOut never giving up
TimedOut_Never(w) == FALSE

\* checkBuffer: Date.now() - startTime > 10000
TimedOut(w) == w.waited > BUFFER_TIMEOUT_MS

\* audioElement.currentTime = data.startTime, when there is a player
Positioned(c, st) == IF c.audioPlayer THEN [c EXCEPT !.audioTime = st] ELSE c

\* socket.on('queue-update')
OnQueueUpdate(idx, playing) ==
    /\ cmds < MaxMessages /\ cmds' = cmds + 1
    /\ LET trackChanged == client.trackIndex # idx
           entered == IF trackChanged
                      THEN [client EXCEPT
                              !.isTransitioning = TRUE,
                              !.consecutiveResyncs = 0,
                              !.timers = @ \cup {[kind |-> "transition",
                                                  due |-> now + TRANSITION_MS]}]
                      ELSE client
           updated == [entered EXCEPT !.trackIndex = idx, !.isPlaying = playing]
       IN client' = IF idx < updated.tracks THEN LoadAudioForTrack(updated, idx)
                    ELSE updated
    /\ ClientEmits([op |-> "queue-update",
                    arg |-> IF client.trackIndex # idx THEN "changed" ELSE "same"], <<>>)

\* socket.on('prepare-playback') -> prepareForSynchronizedPlayback, up to the
\* first checkBuffer that does not resolve
OnPreparePlayback(trackIndex, st) ==
    /\ cmds < MaxMessages /\ cmds' = cmds + 1
    /\ LET entered == [client EXCEPT !.isTransitioning = TRUE]
           loaded == IF ~client.audioPlayer \/ client.loaded # trackIndex
                     THEN LoadAudioForTrack(entered, trackIndex)
                     ELSE entered
       IN IF ~(trackIndex < client.tracks)    \* no such track
          THEN /\ client' = [client EXCEPT !.isTransitioning = FALSE]
               /\ ClientEmits([op |-> "prepare-playback", arg |-> "no-track"], <<>>)
          ELSE IF ~client.audioPlayer \/ loaded.buffered
          THEN /\ client' = Positioned(loaded, st)
               /\ ClientEmits([op |-> "prepare-playback", arg |-> "ready",
                               wait |-> IF client.audioPlayer THEN "buffered"
                                        ELSE "no-player",
                               sought |-> client.audioPlayer /\ client'.audioTime = st],
                              <<[type |-> "ready-to-play"]>>)
          ELSE /\ client' = [loaded EXCEPT
                               !.waits = Append(@, [due |-> now + BUFFER_POLL_MS,
                                                    waited |-> 0,
                                                    startTime |-> st])]
               /\ ClientEmits([op |-> "prepare-playback", arg |-> "waiting"], <<>>)

\* the sequence without its i-th element
Without(seq, i) == [j \in 1..(Len(seq) - 1) |-> IF j < i THEN seq[j] ELSE seq[j + 1]]

\* setTimeout(checkBuffer, 100) runs; when the wait resolves, the rest of
\* prepareForSynchronizedPlayback runs with it
CheckBuffer(i) ==
    /\ i \in 1..Len(client.waits)
    /\ client.waits[i].due <= now
    /\ LET w == client.waits[i] IN
       IF client.buffered \/ TimedOut(w)
       THEN /\ client' = Positioned([client EXCEPT !.waits = Without(@, i)], w.startTime)
            /\ ClientEmits([op |-> "check-buffer", arg |-> "ready",
                            wait |-> IF client.buffered THEN "buffered"
                                     ELSE "timeout",
                            sought |-> client.audioPlayer /\ client'.audioTime = w.startTime],
                           <<[type |-> "ready-to-play"]>>)
       ELSE /\ client' = [client EXCEPT !.waits[i].due = now + BUFFER_POLL_MS]
            /\ ClientEmits([op |-> "check-buffer", arg |-> "waiting"], <<>>)
    /\ UNCHANGED cmds

\* socket.on('synchronized-play') -> executeSynchronizedPlay
OnSynchronizedPlay(st) ==
    /\ cmds < MaxMessages /\ cmds' = cmds + 1
    /\ client' = IF ~client.audioPlayer
                 THEN [client EXCEPT !.isTransitioning = FALSE]
                 ELSE [client EXCEPT
                         !.audioTime = st + client.clientLatency,
                         !.isPlaying = TRUE,
                         !.timers = @ \cup {[kind |-> "play",
                                             due |-> now + PLAY_SETTLE_MS]}]
    /\ ClientEmits([op |-> "synchronized-play", arg |-> ""], <<>>)

\* the timer of a queue-update (3 s) or of a synchronized-play (1 s) runs
TransitionTimer(kind) ==
    \E t \in ClientDue(kind) :
      /\ client' = [client EXCEPT !.isTransitioning = FALSE, !.timers = @ \ {t}]
      /\ ClientEmits([op |-> "transition-timer", arg |-> kind], <<>>)
      /\ UNCHANGED cmds

\* socket.on('sync-time') -> handleTimeSync
OnSyncTime(serverTime) ==
    /\ cmds < MaxMessages /\ cmds' = cmds + 1
    /\ LET c == TimeSynced(client, serverTime) IN
       client' = [c EXCEPT !.correctedAt =
                     IF c.playbackRate # client.playbackRate \/ c.audioTime # client.audioTime
                     THEN now ELSE @]
    /\ ClientEmits([op |-> "sync-time", arg |-> "", serverTime |-> serverTime], <<>>)

\* the media element has 3 s of data ahead
BufferFills ==
    /\ client.audioPlayer
    /\ ~client.buffered
    /\ client' = [client EXCEPT !.buffered = TRUE]
    /\ ClientEmits([op |-> "client", arg |-> "buffer-fills"], <<>>)
    /\ UNCHANGED cmds

\* loadTrack after its fetch: currentTrackId, audioElement.src, load()
SourceSet(i) ==
    /\ i \in client.loading
    /\ client' = [client EXCEPT
                    !.loading = @ \ {i},
                    !.loaded = i,
                    !.buffered = FALSE,
                    !.audioTime = 0,
                    !.playbackRate = 100]
    /\ ClientEmits([op |-> "client", arg |-> "source-set"], <<>>)
    /\ UNCHANGED cmds

\* loadTrack's fetch fails: handleError -> onAudioError emits skip
LoadFails(i) ==
    /\ i \in client.loading
    /\ client' = [client EXCEPT !.loading = @ \ {i}]
    /\ ClientEmits([op |-> "client", arg |-> "load-fails"], <<[type |-> "skip"]>>)
    /\ UNCHANGED cmds

\* The checks of a wait come every 100 ms.  A check that finds neither enough
\* data nor the timeout only re-arms itself, so time may pass over it; a check
\* that would resolve the wait is a step of its own (CheckBuffer).
\* how many checks of wait w come before d ms have passed
ChecksBefore(w, d) == IF d <= w.due - now THEN 0
                      ELSE (d - (w.due - now) - 1) \div BUFFER_POLL_MS + 1
\* what w.waited is at its k-th coming check (k = 1 is the next)
WaitedAt(w, k) == w.waited + (w.due - now) + (k - 1) * BUFFER_POLL_MS
\* the checks of w in the next d ms change nothing
Idle(w, d) ==
    LET n == ChecksBefore(w, d) IN
    n > 0 => ~client.buffered /\ ~TimedOut([w EXCEPT !.waited = WaitedAt(w, n)])
\* the check of w that resolves it, as things stand
Resolving(w) ==
    IF client.buffered \/ WaitedAt(w, 1) > BUFFER_TIMEOUT_MS THEN w.due
    ELSE w.due + ((BUFFER_TIMEOUT_MS - WaitedAt(w, 1)) \div BUFFER_POLL_MS + 1) * BUFFER_POLL_MS
PrepareDues == ClientDues \cup {Resolving(client.waits[i]) : i \in 1..Len(client.waits)}

\* time passes on the client: up to its next timer or check, or, while it
\* waits for no buffer, by the server's delay between queue-update and
\* prepare-playback
PrepareAdvance ==
    \E t \in IF client.waits = <<>> THEN PrepareDues \cup {now + NAV_PREPARE_DELAY}
              ELSE PrepareDues :
      LET d == t - now IN
      /\ d > 0
      /\ \A due \in ClientDues : t <= due
      /\ \A i \in 1..Len(client.waits) : Idle(client.waits[i], d)
      /\ client' = [client EXCEPT
                      !.lastResyncTime = Max(@ - d, now - RESYNC_RESET_MS),
                      !.correctedAt = Max(@ - d, now - RESYNC_RESET_MS),
                      !.timers = {[x EXCEPT !.due = @ - d] : x \in @},
                      !.waits = [i \in 1..Len(@) |->
                                   [@[i] EXCEPT
                                      !.waited = @ + d,
                                      !.due = @ + ChecksBefore(client.waits[i], d)
                                                    * BUFFER_POLL_MS - d]]]
      /\ client' # client
      /\ ClientEmits([op |-> "client", arg |-> "advance"], <<>>)
      /\ UNCHANGED cmds

InitPrepare ==
    /\ queue = <<>>
    /\ currentTrackIndex = 0
    /\ isPlaying = FALSE
    /\ currentTime = 0
    /\ startTime = NULL
    /\ users = [u \in {} |-> [ready |-> FALSE]]
    /\ syncInterval = NULL
    /\ intervals = {}
    /\ playPauseLock = FALSE
    /\ lastPlayPauseTime = now - PLAY_PAUSE_COOLDOWN
    /\ readyTimeout = NULL
    /\ timeouts = {}
    /\ useRedis = FALSE
    /\ pendingSaves = 0
    /\ emitted = <<>>
    /\ replies = [u \in Users |-> {}]
    /\ cmds = 0
    /\ advances = 0
    /\ last = [op |-> "client", arg |-> "connected"]
    /\ lastPrepareAt = NULL
    /\ sincePause = FALSE
    /\ navWindow = FALSE
    /\ lastSyncTime = NULL
    /\ beforeAdd = [set |-> FALSE, q |-> <<>>]
    /\ \E player \in BOOLEAN : client = PrepareClient(player)
    /\ manager = NewManager

NextPrepare ==
    \/ \E idx \in 0..1 : OnQueueUpdate(idx, TRUE)    \* the room keeps playing
    \/ \E i \in 0..2, st \in PrepareStarts : OnPreparePlayback(i, st)
    \/ \E i \in 1..MaxMessages : CheckBuffer(i)
    \/ \E st \in PrepareStarts : OnSynchronizedPlay(st)
    \/ \E kind \in {"transition", "play"} : TransitionTimer(kind)
    \/ OnSyncTime(1500)
    \/ BufferFills
    \/ \E i \in 0..1 : SourceSet(i)
    \/ \E i \in 0..1 : LoadFails(i)
    \/ RateRestored
    \/ ResyncReset
    \/ PrepareAdvance

SpecPrepare == InitPrepare /\ [][NextPrepare]_vars

---------------------------------------------------------------------------
(* Claims *)

\* C1: a sync-time is broadcast only while the room is Playing at that moment,
\* and none carries isPlaying = false; in particular the tick that detects the
\* end of the track broadcasts none.
C1_SyncTimeOnlyWhilePlaying ==
    \A m \in MsgsOf(emitted, "sync-time") : Mode = "Playing" /\ m.isPlaying

\* C2: while the room is Playing and no tick is due, currentTime is within one
\* tick period of now - startTime; the startTime carried by synchronized-play
\* is within one tick of serverTimestamp - roomState.startTime.
C2_ClockWithinOneTick ==
    /\ (Mode = "Playing" /\ \A t \in intervals : t.due > now)
          => /\ startTime # NULL
             /\ currentTime - (now - startTime) < SYNC_INTERVAL
             /\ (now - startTime) - currentTime < SYNC_INTERVAL
    /\ \A m \in MsgsOf(emitted, "synchronized-play") :
          /\ startTime # NULL
          /\ m.startTime - (m.serverTimestamp - startTime) < SYNC_INTERVAL
          /\ (m.serverTimestamp - startTime) - m.startTime < SYNC_INTERVAL

\* C3: currentTrackIndex is in [0, |queue|) whenever the queue is not empty,
\* and 0 when it is empty.
C3_IndexInRange ==
    IF Len(queue) > 0
    THEN currentTrackIndex >= 0 /\ currentTrackIndex < Len(queue)
    ELSE currentTrackIndex = 0

\* C4: with an empty queue the room is neither Preparing nor Playing,
\* currentTrackIndex = 0 and currentTime = 0; play and seek against an empty
\* queue broadcast no prepare-playback.
C4_EmptyQueueIsStopped ==
    Len(queue) = 0 =>
        /\ ~isPlaying
        /\ syncInterval = NULL
        /\ currentTrackIndex = 0
        /\ currentTime = 0
        /\ ~HasMsg(emitted, "prepare-playback")

\* C5: the room never stays in Preparing longer than the ready-timeout: while
\* it is Preparing, at most 10,000 ms have passed since the prepare-playback
\* that opened the period.
C5_PreparingEndsWithinTimeout ==
    (Mode = "Preparing" /\ lastPrepareAt # NULL)
        => now - lastPrepareAt <= READY_TIMEOUT_MS

\* C6: when the ready-timeout starts synchronized playback, at least 10,000 ms
\* have passed since the most recent prepare-playback broadcast.
C6_TimeoutAfterFullPeriod ==
    (last.op = "ready-timeout" /\ HasMsg(emitted, "synchronized-play"))
        => /\ lastPrepareAt # NULL
           /\ now - lastPrepareAt >= READY_TIMEOUT_MS

\* C7: at the moment prepare-playback is broadcast every connected session
\* has ready = false.
C7_PrepareFindsNobodyReady ==
    HasMsg(emitted, "prepare-playback") => \A u \in DOMAIN users : ~users[u].ready

\* C8: a ready-to-play answering an earlier epoch is ignored: it sets no ready
\* flag and starts no synchronized playback.
C8_OldReadyIgnored ==
    [][(last'.op = "ready-to-play" /\ last'.arg = "old")
          => (users' = users /\ ~HasMsg(emitted', "synchronized-play"))]_vars

\* C9: a play or pause arriving while playPauseLock is held, or less than
\* 300 ms after the last accepted play/pause, changes no room state, arms or
\* cancels no timer and broadcasts nothing.
C9_DroppedPlayPauseChangesNothing ==
    [][(/\ last'.op \in {"play", "pause"}
        /\ (playPauseLock \/ now - lastPlayPauseTime < PLAY_PAUSE_COOLDOWN))
          => (UNCHANGED <<roomVars, timerVars>> /\ emitted' = <<>>)]_vars

\* C9 witness: a pause sent inside the cooldown, lock already released, was
\* dropped and the room is still Preparing with its ready-timeout armed.
C9_Witness ==
    /\ last = [op |-> "pause", arg |-> "cooldown"]
    /\ Mode = "Preparing"
    /\ readyTimeout # NULL
    /\ ~playPauseLock

C11_PauseFreezesTime ==
    [][/\ (last'.op = "pause" /\ last'.arg = "accepted")
            => /\ startTime # NULL
               /\ currentTime' - (now - startTime) < SYNC_INTERVAL
               /\ (now - startTime) - currentTime' < SYNC_INTERVAL
               /\ ~isPlaying'
               /\ emitted' = <<PlayerUpdate(FALSE, currentTime')>>
       /\ (sincePause /\ sincePause' /\ currentTime' # currentTime)
            => /\ last'.arg # "dropped"
               /\ last'.op \in {"seek", "skip", "previous", "jump-to-track",
                                "remove-from-queue"}]_vars

\* C11 witness: a pause was accepted after the play had run for at least the
\* cooldown and set currentTime to the time played.
C11_Witness ==
    /\ last = [op |-> "pause", arg |-> "accepted"]
    /\ currentTime >= PLAY_PAUSE_COOLDOWN
    /\ HasMsg(emitted, "player-update")

\* C12: a navigation handled while the room is Playing broadcasts queue-update
\* with the new index and currentTime = 0 and stops the ticker, and from then
\* until its prepare-playback is broadcast no sync-time and no
\* synchronized-play is broadcast.
C12_QuietNavigationWindow ==
    /\ (navWindow /\ last.arg = "accepted"
            /\ last.op \in {"skip", "previous", "jump-to-track"})
          => /\ emitted = <<QueueUpdate(queue, currentTrackIndex, isPlaying, 0)>>
             /\ currentTime = 0
             /\ syncInterval = NULL
    /\ navWindow => /\ ~HasMsg(emitted, "sync-time")
                    /\ ~HasMsg(emitted, "synchronized-play")

C14_SyncTimeMonotone ==
    [][(/\ lastSyncTime # NULL /\ lastSyncTime' # NULL
        /\ \E m \in MsgsOf(emitted', "sync-time") : m.isPlaying)
          => lastSyncTime' >= lastSyncTime]_vars

\* C15: a ping is accepted exactly when its round-trip time rtt satisfies
\* rtt >= 0 and rtt / 2 <= 10000; an accepted ping stores a latency in
\* [0, 10000] and is answered with pong, a rejected one changes nothing of the
\* session and sends nothing; every stored latency is in [0, 10000].
C15_PingAcceptedInRange ==
    [][/\ last'.op = "ping"
            => IF ~last'.rtt.nan /\ last'.rtt.v >= 0 /\ last'.rtt.v <= 2 * 10000
               THEN /\ HasMsg(emitted', "pong")
                    /\ users'[last'.user].lastPing = now
               ELSE /\ users' = users
                    /\ emitted' = <<>>
       /\ last'.op \in {"ping", "connect"}
            => \A u \in DOMAIN users' :
                  /\ ~users'[u].latency.nan
                  /\ users'[u].latency.v >= 0
                  /\ users'[u].latency.v <= 10000]_vars

\* C16: add-to-queue followed by remove-from-queue of the last position, with
\* no other change of the queue in between, leaves the queue as it was before
\* the add: the same tracks in the same order.
C16_AddThenRemoveLast ==
    [][(last'.op = "remove-from-queue" /\ last'.arg # "dropped" /\ last'.undoes)
          => queue' = beforeAdd.q]_vars

\* C16 witness: the last position was removed from a queue that the latest
\* add-to-queue had left.
C16_Witness ==
    /\ last.op = "remove-from-queue"
    /\ last.arg # "dropped"
    /\ last.undoes

\* C17: between the mutation made by add-to-queue or remove-from-queue and the
\* queue-update broadcast for it, no command handler changes the room state,
\* however long the snapshot save takes.
C17_NoMutationBeforeBroadcast ==
    [][(/\ pendingSaves > 0
        /\ last'.op \in {"play", "pause", "skip", "previous", "jump-to-track", "seek",
                         "add-to-queue", "reorder-queue", "remove-from-queue"})
          => UNCHANGED roomVars]_vars

\* a sync-time reaches a playing client that has a player and is not
\* transitioning, its drift is at least 1.0 s and the resync cooldown is over
HardDriftArrives ==
    /\ last'.op = "sync-time"
    /\ client.audioPlayer
    /\ client.isPlaying
    /\ ~client.isTransitioning
    /\ Drift(client, last'.serverTime) >= HARD_SEEK_DRIFT
    /\ now - client.lastResyncTime >= client.resyncCooldown

\* C18 (as stated): when a sync-time arrives with a drift of at least 1.0 s,
\* the client is not transitioning and the resync cooldown has expired, the
\* client sets the media currentTime to serverTime + clientLatency and leaves
\* the playback rate alone, whatever consecutiveResyncs is.
C18_HardSeekAlways ==
    [][HardDriftArrives
          => /\ client'.audioTime = last'.serverTime + client.clientLatency
             /\ client'.playbackRate = client.playbackRate]_vars

\* C18 (amended): the same for consecutiveResyncs below maxConsecutiveResyncs
\* (3); at 3 the message corrects nothing: media currentTime and playback rate
\* stay, resyncCooldown becomes 5000 ms and consecutiveResyncs 0.
C18_HardSeekBelowLimit ==
    [][HardDriftArrives
          => IF client.consecutiveResyncs < maxConsecutiveResyncs
             THEN /\ client'.audioTime = last'.serverTime + client.clientLatency
                  /\ client'.playbackRate = client.playbackRate
             ELSE /\ client'.audioTime = client.audioTime
                  /\ client'.playbackRate = client.playbackRate
                  /\ client'.resyncCooldown = DEGRADED_COOLDOWN
                  /\ client'.consecutiveResyncs = 0]_vars

\* C18 witness: a hard seek has just been made with a latency that counts:
\* the media element is at the server's time plus 40 ms, the correction was
\* the third in a row.
C18_Witness ==
    /\ last.op = "sync-time"
    /\ client.clientLatency = 40
    /\ client.audioTime = last.serverTime + client.clientLatency
    /\ client.lastResyncTime = now
    /\ client.consecutiveResyncs = maxConsecutiveResyncs

\* a sync-time reaches a client that has a player, and its drift is not above
\* the threshold in force: 0.3 s, or 0.5 s when consecutiveResyncs > 2
SmallDriftArrives ==
    /\ last'.op = "sync-time"
    /\ client.audioPlayer
    /\ Abs(last'.serverTime - client.audioTime)
          <= (IF client.consecutiveResyncs > 2 THEN 500 ELSE 300)

C20_NoSecondSynchronizedPlay ==
    [][(last'.op = "ready-to-play" /\ last'.arg = "cur" /\ Mode = "Playing")
          => ~HasMsg(emitted', "synchronized-play")]_vars

\* Started is a state of Spec: there the room is not yet as Started says.
StartedReached == ~Started

\* C21: a newer navigation command cancels the pending delayed
\* prepare-playback, so navigation commands handled within one 500 ms window
\* give one prepare-playback: when a delayed prepare-playback is broadcast, no
\* other one is still waiting to be broadcast.
C21_OnePreparePerWindow ==
    [][last'.op = "prepare" => ~\E t \in timeouts' : t.kind = "prepare"]_vars

\* C22: a pause accepted (or the queue emptied) before the 500 ms delay ends
\* cancels the pending prepare-playback: prepare-playback is never broadcast
\* while roomState.isPlaying is false.
C22_NoPrepareWhileStopped ==
    HasMsg(emitted, "prepare-playback") => isPlaying

\* C23 (as stated): a play received while the room is Playing, and a pause
\* received while the room is Paused or Preparing, is ignored: room state,
\* timers, ticker and lastPlayPauseTime are unchanged and nothing is broadcast.
C23_IgnoredOutsideTheirMode ==
    [][(\/ last'.op = "play" /\ Mode = "Playing"
        \/ last'.op = "pause" /\ Mode \in {"Paused", "Preparing"})
          => /\ UNCHANGED <<roomVars, timerVars>>
             /\ emitted' = <<>>]_vars

\* C23 (amended): the same for a play received while the room is Playing and
\* a pause received while it is Paused (roomState.isPlaying false); a pause
\* received while Preparing is not among the ignored ones.
C23_IgnoredWhenAlreadyThere ==
    [][(\/ last'.op = "play" /\ Mode = "Playing"
        \/ last'.op = "pause" /\ Mode = "Paused")
          => /\ UNCHANGED <<roomVars, timerVars>>
             /\ emitted' = <<>>]_vars

\* C23 witness: a play has passed the lock and the cooldown and was ignored
\* because the room is Playing.
C23_Witness ==
    /\ last.op = "play"
    /\ last.arg = "ignored"
    /\ Mode = "Playing"

\* the ticker runs while the room is playing a track whose duration has passed
EndOfTrackTick ==
    /\ last'.op = "tick"
    /\ isPlaying
    /\ currentTrackIndex >= 0
    /\ currentTrackIndex < Len(queue)
    /\ startTime # NULL
    /\ now - startTime >= queue[currentTrackIndex + 1].duration

RemoveInRange ==
    /\ last'.op = "remove-from-queue"
    /\ last'.index >= 0
    /\ last'.index < Len(queue)

\* C25: for every queue, currentTrackIndex c and in-range index i the
\* remove-from-queue handler leaves c - 1 if i < c, c if i > c, and for i = c:
\* 0 with isPlaying false and currentTime 0 if the queue becomes empty, 0 if c
\* was the last position, c otherwise.
C25_RemoveAtRules ==
    [][RemoveInRange =>
         LET i == last'.index
             c == currentTrackIndex
         IN IF i < c THEN currentTrackIndex' = c - 1
            ELSE IF i > c THEN currentTrackIndex' = c
            ELSE IF Len(queue) = 1
            THEN currentTrackIndex' = 0 /\ isPlaying' = FALSE /\ currentTime' = 0
            ELSE IF c = Len(queue) - 1 THEN currentTrackIndex' = 0
            ELSE currentTrackIndex' = c]_vars

\* C26: RoomStateManager.removeFromQueue gives the queue and the
\* currentTrackIndex that the remove-from-queue socket handler gives, for every
\* queue, current index and in-range index.
C26_ManagerAgreesWithHandler ==
    [][RemoveInRange =>
         ManagerRemoveFromQueue(queue, currentTrackIndex, last'.index)
            = [queue |-> queue', currentTrackIndex |-> currentTrackIndex']]_vars

\* the index a navigation command asks for
NavTarget ==
    IF last'.op = "skip" THEN currentTrackIndex + 1
    ELSE IF last'.op = "previous" THEN currentTrackIndex - 1
    ELSE last'.index

\* a navigation command with an in-range target is handled while the room is
\* not playing
NavWhileStopped ==
    /\ last'.op \in {"skip", "previous", "jump-to-track"}
    /\ ~isPlaying
    /\ NavTarget >= 0
    /\ NavTarget < Len(queue)

\* C27: skip, previous or jump-to-track with an in-range target, handled while
\* the room is not playing, moves currentTrackIndex to the target, sets
\* currentTime = 0, resets every ready flag, broadcasts queue-update and
\* nothing else, arms no timer and starts no ticker: the room stays not
\* playing and no prepare-playback, synchronized-play or sync-time follows
\* from it.
C27_NavigationWhileStopped ==
    [][NavWhileStopped
          => /\ currentTrackIndex' = NavTarget
             /\ currentTime' = 0
             /\ DOMAIN users' = DOMAIN users
             /\ \A u \in DOMAIN users' : ~users'[u].ready
             /\ emitted' = <<QueueUpdate(queue, NavTarget, FALSE, 0)>>
             /\ isPlaying' = FALSE
             /\ syncInterval' = NULL
             /\ intervals' = {}
             /\ UNCHANGED <<queue, timeouts, readyTimeout>>]_vars

\* C27 witness: a skip has just been accepted in a room that is not playing.
C27_Witness ==
    /\ last.op = "skip"
    /\ last.arg = "accepted"
    /\ ~isPlaying
    /\ currentTrackIndex = 1
    /\ HasMsg(emitted, "queue-update")

\* a command whose target index is outside the queue
OutOfRangeCommand ==
    \/ last'.op = "skip" /\ currentTrackIndex + 1 >= Len(queue)
    \/ last'.op = "previous" /\ currentTrackIndex - 1 < 0
    \/ /\ last'.op \in {"jump-to-track", "remove-from-queue"}
       /\ (last'.index < 0 \/ last'.index >= Len(queue))

\* C28: skip on the last track, previous on the first track, and
\* jump-to-track or remove-from-queue with an index below 0 or not below the
\* queue's length are dropped: room state, the ticker and all timers are
\* unchanged and nothing is broadcast.
C28_OutOfRangeDropped ==
    [][OutOfRangeCommand
          => /\ UNCHANGED <<roomVars, timerVars>>
             /\ emitted' = <<>>]_vars

\* C28 witness: a jump-to-track(-1) has just been dropped while the room is
\* playing, its ticker running.
C28_Witness ==
    /\ last.op = "jump-to-track"
    /\ last.arg = "dropped"
    /\ last.index = 0 - 1
    /\ Mode = "Playing"

\* what seek leaves alone and what it sends: isPlaying, the queue,
\* currentTrackIndex, the sessions and their ready flags, the ticker, the
\* timers; one player-update with the new position and nothing else
SeekFrame ==
    /\ currentTime' = last'.time
    /\ emitted' = <<PlayerUpdate(isPlaying, last'.time)>>
    /\ UNCHANGED <<queue, currentTrackIndex, isPlaying, users, timerVars>>

\* C29 (as stated): seek(t) sets currentTime = t, and startTime = now - t when
\* the room is playing, broadcasts player-update and changes nothing else:
\* startTime stays when the room is not playing, and isPlaying, the queue,
\* currentTrackIndex, the ready flags, the ticker and the ready timeout stay.
C29_SeekSetsClockWhenPlaying ==
    [][last'.op = "seek"
          => /\ SeekFrame
             /\ startTime' = IF isPlaying THEN now - last'.time ELSE startTime]_vars

\* C29 (amended): seek(t) sets currentTime = t and startTime = now - t whether
\* or not the room is playing, broadcasts player-update and changes nothing
\* else.
C29_SeekSetsClockAlways ==
    [][last'.op = "seek"
          => /\ SeekFrame
             /\ startTime' = now - last'.time]_vars

\* C29 witness: a seek to 100 ms has just been handled in a room that is not
\* playing; startTime says the track started 100 ms ago.
C29_Witness ==
    /\ last.op = "seek"
    /\ last.time = 100
    /\ ~isPlaying
    /\ currentTime = 100
    /\ startTime = now - 100

\* C30: a disconnect removes exactly the disconnecting session from users and
\* leaves every other session's record (latency, ready flag), isPlaying, the
\* queue, currentTrackIndex, currentTime and startTime unchanged.
C30_DisconnectRemovesOneSession ==
    [][last'.op = "disconnect"
          => /\ last'.user \in DOMAIN users
             /\ DOMAIN users' = DOMAIN users \ {last'.user}
             /\ \A v \in DOMAIN users' : users'[v] = users[v]
             /\ UNCHANGED <<queue, currentTrackIndex, isPlaying, currentTime,
                            startTime>>]_vars

\* C30 witness: a session has just disconnected from a playing room in which
\* another session, already ready, is still connected.
C30_Witness ==
    /\ last.op = "disconnect"
    /\ isPlaying
    /\ \E v \in DOMAIN users : v # last.user /\ users[v].ready

\* C31: after a restart that hydrates the room from the snapshot store, users
\* holds only sessions of sockets connected to the new process: no session
\* written to the snapshot before the restart is among them.
C31_NoSessionRestored ==
    manager.restored \cap DOMAIN users = {}

\* C40: once the room has been hydrated from a snapshot, a periodic save that
\* the store takes leaves in the store the queue of the live room.
C40_AutoSavePersistsLiveQueue ==
    [][manager.hydrated /\ last'.op = "auto-save" /\ last'.arg = "saved"
          => manager'.store.queue = queue']_vars

\* C32: setState records the state in memory whether the store took it or
\* threw, and a getState whose store read throws, right after a setState(s)
\* whose store write threw, returns s.
C32_MemoryWhenStoreFails ==
    [][/\ last'.op = "setState" => manager'.memoryState = last'.state
       /\ (/\ last.op = "setState" /\ last.arg = "failed"
           /\ last'.op = "getState" /\ last'.arg = "failed")
            => last'.returned = last.state]_vars

\* C32 witness: the store holds an older snapshot, setState(roomState) failed
\* to write, the getState after it failed to read and returned roomState.
C32_Witness ==
    /\ last.op = "getState"
    /\ last.arg = "failed"
    /\ last.prev.op = "setState"
    /\ last.prev.arg = "failed"
    /\ last.returned = "roomState"
    /\ manager.store.saved

DegradedReached == client # DegradedClient

\* a sync-time has just made handleTimeSync change the rate or seek
CorrectionApplied ==
    /\ last'.op = "sync-time"
    /\ client'.playbackRate # client.playbackRate \/ client'.audioTime # client.audioTime

\* C35: when handleTimeSync applies a correction, the one before it was
\* applied at least resyncCooldown earlier: at least 2,000 ms, and at least
\* 5,000 ms when the client is in degraded mode.
C35_CorrectionsApart ==
    [][CorrectionApplied
          => /\ now - client.correctedAt >= client.resyncCooldown
             /\ now - client.correctedAt >= RESYNC_COOLDOWN
             /\ client.resyncCooldown = DEGRADED_COOLDOWN
                  => now - client.correctedAt >= DEGRADED_COOLDOWN]_vars

\* C35 witness: a correction has just been applied in degraded mode, after an
\* earlier one.
C35_Witness ==
    /\ last.op = "sync-time"
    /\ client.correctedAt = now
    /\ client.resyncCooldown = DEGRADED_COOLDOWN
    /\ client.consecutiveResyncs = 1
    /\ client.lastResyncTime = now
    /\ client.playbackRate # 100 \/ client.audioTime = last.serverTime + client.clientLatency

\* C36: once 10 s have passed since the last correction and the timers due
\* by then have run, the client is in normal mode: resyncCooldown is 2000 and
\* consecutiveResyncs is 0, whether degraded mode was entered or not.
C36_NormalAfterTenSeconds ==
    (now - client.correctedAt >= RESYNC_RESET_MS /\ ClientDue("reset") = {})
        => /\ client.resyncCooldown = RESYNC_COOLDOWN
           /\ client.consecutiveResyncs = 0

\* C36 witness: the client was in degraded mode, 10 s have passed since its
\* last correction and the last reset timer has just put it back to normal.
C36_Witness ==
    /\ last.op = "client"
    /\ last.arg = "resync-reset"
    /\ now - client.correctedAt >= RESYNC_RESET_MS
    /\ client.resyncCooldown = RESYNC_COOLDOWN
    /\ client.timers = {}

\* C37: the playback rate is 0.9, 1.0 or 1.1; a sync-time changes it only
\* when no adjustment is in progress, to 1.1 when the server is ahead of the
\* media element and to 0.9 when it is behind, and arms the timer that
\* restores it 500 ms later; while the rate is not 1.0 that timer is pending,
\* due within 500 ms; when it runs the rate is 1.0 and the adjustment over.
C37_SoftCorrectionRate ==
    [][/\ client'.playbackRate \in {90, 100, 110}
       /\ client'.playbackRate # 100
            => /\ client'.isAdjustingPlaybackRate
               /\ \E t \in client'.timers :
                     t.kind = "rate" /\ t.due <= now + RATE_ADJUST_MS
       /\ (last'.op = "sync-time" /\ client.isAdjustingPlaybackRate)
            => client'.playbackRate = client.playbackRate
       /\ (last'.op = "sync-time" /\ client'.playbackRate # client.playbackRate)
            => /\ client'.playbackRate =
                     IF last'.serverTime > client.audioTime THEN 110 ELSE 90
               /\ [kind |-> "rate", due |-> now + RATE_ADJUST_MS] \in client'.timers
       /\ (last'.op = "client" /\ last'.arg = "rate-restored")
            => client'.playbackRate = 100 /\ ~client'.isAdjustingPlaybackRate]_vars

\* C37 witness: a soft correction was applied 500 ms ago and its timer has
\* just restored the rate.
C37_Witness ==
    /\ last.op = "client"
    /\ last.arg = "rate-restored"
    /\ client.correctedAt = now - RATE_ADJUST_MS
    /\ client.playbackRate = 100
    /\ ~client.isAdjustingPlaybackRate

\* C38: when the clients' media elements reach the end of a track, the skips
\* they emit and the ticker's end-of-track advance together leave the room at
\* most one track after the one that ended.
C38_OneAdvancePerTrackEnd ==
    [][(last'.op = "skip" /\ "ended" \in DOMAIN last')
          => currentTrackIndex' <= last'.ended + 1]_vars

\* C39: at most one ticker interval is uncleared, and it is the one that
\* syncInterval references; with syncInterval null no ticker callback is left
\* to run.
C39_OneTicker ==
    /\ Cardinality(intervals) <= 1
    /\ \A iv \in intervals : iv.id = syncInterval
    /\ syncInterval = NULL => intervals = {}

\* C39 witness: the ticker that ran on the first track was cleared, and
\* playback of a later track has started a new one.
C39_Witness ==
    /\ currentTrackIndex > 0
    /\ syncInterval # NULL
    /\ Cardinality(intervals) = 1
    /\ HasMsg(emitted, "synchronized-play")

\* C33: from the start of a prepare-playback until its ready-to-play is
\* emitted, isTransitioning stays true and every sync-time received leaves
\* the client as it is, whatever timers of earlier queue-updates and
\* synchronized-plays run meanwhile.
C33_TransitionWhilePreparing ==
    [][/\ client.waits # <<>> => client.isTransitioning
       /\ client'.waits # <<>> => client'.isTransitioning
       /\ last'.op = "sync-time" /\ client.waits # <<>> => client' = client]_vars

\* C34 as stated: every ready-to-play follows a buffer wait that ended with
\* enough data or with the timeout, and a seek to startTime.
C34_ReadyAfterWaitAndSeek ==
    HasMsg(emitted, "ready-to-play") =>
        /\ last.wait \in {"buffered", "timeout"}
        /\ last.sought

\* C34 amended: a prepare-playback for a track of the client's queue is
\* answered by exactly one ready-to-play: at once by a client without a media
\* element, and otherwise after the buffer wait has ended (enough data, or the
\* first check later than 10 s) and the element was sought to startTime.  The
\* wait always ends: its next check is never more than 100 ms away and it
\* never lasts longer than 10.1 s.
C34_OneReadyPerPrepare ==
    [][/\ last'.op = "prepare-playback" /\ last'.arg # "no-track" =>
             \/ /\ emitted' = <<[type |-> "ready-to-play"]>>
                /\ Len(client'.waits) = Len(client.waits)
                /\ IF client.audioPlayer
                   THEN last'.wait = "buffered" /\ last'.sought
                   ELSE last'.wait = "no-player" /\ ~last'.sought
             \/ /\ emitted' = <<>>
                /\ client.audioPlayer
                /\ Len(client'.waits) = Len(client.waits) + 1
       /\ last'.op = "check-buffer" =>
             \/ /\ emitted' = <<[type |-> "ready-to-play"]>>
                /\ Len(client'.waits) = Len(client.waits) - 1
                /\ last'.wait \in {"buffered", "timeout"}
                /\ last'.sought
             \/ /\ emitted' = <<>>
                /\ Len(client'.waits) = Len(client.waits)
       /\ last'.op \notin {"prepare-playback", "check-buffer"} =>
             /\ ~HasMsg(emitted', "ready-to-play")
             /\ Len(client'.waits) = Len(client.waits)
       /\ \A i \in 1..Len(client'.waits) :
             /\ client'.waits[i].due <= now + BUFFER_POLL_MS
             /\ client'.waits[i].waited <= BUFFER_TIMEOUT_MS + BUFFER_POLL_MS]_vars

\* C34 witness: a wait that found no data for 10 s has ended with the
\* timeout, the element was sought, and ready-to-play is sent.
C34_Witness ==
    /\ last.op = "check-buffer"
    /\ last.arg = "ready"
    /\ last.wait = "timeout"
    /\ last.sought
    /\ emitted = <<[type |-> "ready-to-play"]>>

====
